---- MODULE Spec2Model ----
(***************************************************************************)
(* The qualified-name resolver, the relationship inferencer and the        *)
(* column mapper of xsdata's SQLAlchemy template filters                   *)
(* (src/xsdata/formats/sqlalchemy/filters.py) and of the dataclass filters *)
(* they extend (src/xsdata/formats/dataclass/filters.py).                  *)
(*                                                                         *)
(* A Python str is a sequence of one-character strings, so that endswith,  *)
(* split, join, the namespace regex and the case conversions are computed  *)
(* character by character.  A Python dict is a sequence of [key, val]      *)
(* entries in insertion order.  A Class object is an identifier into heap. *)
(***************************************************************************)
EXTENDS Integers, Sequences, FiniteSets, TLC

VARIABLES
    pc,           \* "new" after __init__; then "ready" for a call, "returned" after one
    heap,         \* the Class objects: identity -> fields
    classes,      \* self.classes: the top-level class list (identities)
    fqname_map,   \* self.fqname_map: ordered dict, fully-qualified name -> class
    fqname_cache, \* Filters._fqname_map: id(obj) -> raw dotted path
    ret           \* the call that returned last: operation, arguments, outcome

vars == <<pc, heap, classes, fqname_map, fqname_cache, ret>>

-----------------------------------------------------------------------------
(* Python str operations                                                   *)

Dot == <<".">>

StartsWith(s, t) == Len(t) <= Len(s) /\ SubSeq(s, 1, Len(t)) = t

\* str.endswith
EndsWith(s, t) == Len(t) <= Len(s) /\ SubSeq(s, Len(s) - Len(t) + 1, Len(s)) = t

\* the `in` operator on two str values
Contains(s, t) == \E i \in 0..(Len(s) - Len(t)) : SubSeq(s, i + 1, i + Len(t)) = t

RECURSIVE Join(_, _)
\* sep.join(parts)
Join(parts, sep) ==
    IF parts = <<>> THEN <<>>
    ELSE IF Len(parts) = 1 THEN parts[1]
    ELSE parts[1] \o sep \o Join(Tail(parts), sep)

RECURSIVE SplitAt(_, _, _)
SplitAt(s, ch, cur) ==
    IF s = <<>> THEN <<cur>>
    ELSE IF Head(s) = ch THEN <<cur>> \o SplitAt(Tail(s), ch, <<>>)
    ELSE SplitAt(Tail(s), ch, Append(cur, Head(s)))

\* s.split(ch) for a one-character separator
Split(s, ch) == SplitAt(s, ch, <<>>)

RECURSIVE Concat(_)
\* "".join(parts)
Concat(parts) == IF parts = <<>> THEN <<>> ELSE Head(parts) \o Concat(Tail(parts))

RECURSIVE SortedSeq(_)
SortedSeq(S) ==
    IF S = {} THEN <<>>
    ELSE LET m == CHOOSE x \in S : \A y \in S : x <= y
         IN  <<m>> \o SortedSeq(S \ {m})

Range(s) == {s[i] : i \in DOMAIN s}

Last(s) == s[Len(s)]

-----------------------------------------------------------------------------
(* Naming conventions of the configuration (config.conventions): the case  *)
(* functions live outside the filters; they are the generator's defaults,  *)
(* PascalCase for classes and snake_case for fields.                       *)

LowerChars == <<"a", "b", "c", "d", "e", "f", "g", "h", "i", "j", "k", "l", "m",
                "n", "o", "p", "q", "r", "s", "t", "u", "v", "w", "x", "y", "z">>
UpperChars == <<"A", "B", "C", "D", "E", "F", "G", "H", "I", "J", "K", "L", "M",
                "N", "O", "P", "Q", "R", "S", "T", "U", "V", "W", "X", "Y", "Z">>

LowerSet == Range(LowerChars)
UpperSet == Range(UpperChars)
UpperOf  == [c \in LowerSet |-> UpperChars[CHOOSE i \in DOMAIN LowerChars : LowerChars[i] = c]]
LowerOf  == [c \in UpperSet |-> LowerChars[CHOOSE i \in DOMAIN UpperChars : UpperChars[i] = c]]

IsLower(c) == c \in LowerSet
IsUpper(c) == c \in UpperSet
IsDigit(c) == c \in {"0", "1", "2", "3", "4", "5", "6", "7", "8", "9"}
IsAlnum(c) == IsLower(c) \/ IsUpper(c) \/ IsDigit(c)

ToUpper(c) == IF IsLower(c) THEN UpperOf[c] ELSE c

ToLower(c) == IF IsUpper(c) THEN LowerOf[c] ELSE c

RECURSIVE Pascal(_, _)
\* start: the next alphanumeric character opens a word
Pascal(s, start) ==
    IF s = <<>> THEN <<>>
    ELSE IF ~IsAlnum(Head(s)) THEN Pascal(Tail(s), TRUE)
    ELSE <<IF start THEN ToUpper(Head(s)) ELSE Head(s)>> \o Pascal(Tail(s), FALSE)

\* self.class_case: words are cut at the non-alphanumeric characters, each word is
\* capitalised and the words are concatenated
class_case(name) == Pascal(name, TRUE)

RECURSIVE Snake(_, _, _)
\* prev: "none" at the start, "sep" after a dropped character, "lower", "upper"
Snake(s, prev, any) ==
    IF s = <<>> THEN <<>>
    ELSE LET c == Head(s) IN
         IF ~IsAlnum(c) THEN Snake(Tail(s), IF any THEN "sep" ELSE "none", any)
         ELSE (IF prev = "sep" \/ (prev = "lower" /\ IsUpper(c)) THEN <<"_">> ELSE <<>>)
              \o <<ToLower(c)>>
              \o Snake(Tail(s), IF IsUpper(c) THEN "upper" ELSE "lower", TRUE)

\* self.field_case: words are cut at the non-alphanumeric characters and where a
\* lower-case letter is followed by an upper-case one, lower-cased, joined by "_"
field_case(name) == Snake(name, "none", FALSE)

\* self.class_safe_prefix, self.field_safe_prefix
class_safe_prefix == <<"t", "y", "p", "e">>
field_safe_prefix == <<"v", "a", "l", "u", "e">>

RECURSIVE Alnum(_)
\* text.alnum
Alnum(s) ==
    IF s = <<>> THEN <<>>
    ELSE (IF IsAlnum(Head(s)) THEN <<Head(s)>> ELSE <<>>) \o Alnum(Tail(s))

\* Filters.safe_name for the class and field conventions; no name of the model is numeric or
\* a reserved word, which leaves the empty-name and the no-letter guards
safe_name(name, prefix, IsClass) ==
    LET case(n) == IF IsClass THEN class_case(n) ELSE field_case(n)
    IN  IF name = <<>> THEN case(prefix)
        ELSE IF Alnum(name) = <<>> THEN case(prefix \o <<"_">> \o name)
        ELSE case(name)

-----------------------------------------------------------------------------
(* The filters' configuration: alias tables (config.aliases)               *)

\* self.class_aliases / self.field_aliases: dict source -> target, here the default
\* configuration, which has no aliases
class_aliases == <<>>
field_aliases == <<>>

HasKey(d, k) == \E i \in DOMAIN d : d[i].key = k
Get(d, k) == d[CHOOSE i \in DOMAIN d : d[i].key = k].val
\* d[k] = v on an insertion-ordered dict: a key already there keeps its place
Put(d, k, v) ==
    IF HasKey(d, k)
    THEN [i \in DOMAIN d |-> IF d[i].key = k THEN [key |-> k, val |-> v] ELSE d[i]]
    ELSE Append(d, [key |-> k, val |-> v])

\* re.sub(r"\{.*\}", "", name): the match is greedy, from the first "{" that has a "}"
\* after it to the last "}"
StripNs(name) ==
    LET opens  == {i \in DOMAIN name : name[i] = "{"}
        closes == {i \in DOMAIN name : name[i] = "}"}
    IN  IF opens = {} \/ closes = {} THEN name
        ELSE LET i == CHOOSE x \in opens : \A y \in opens : x <= y
                 j == CHOOSE x \in closes : \A y \in closes : y <= x
             IN  IF i < j THEN SubSeq(name, 1, i - 1) \o SubSeq(name, j + 1, Len(name))
                 ELSE name


None == <<>>

RECURSIVE class_name_of(_, _)
\* SqlAlchemyTemplateFilters.class_name(name, parents)
class_name_of(name, parents) ==
    IF HasKey(class_aliases, name) /\ Get(class_aliases, name) # <<>>
    THEN Get(class_aliases, name)
    ELSE IF parents # <<>>
    THEN safe_name(Concat([i \in DOMAIN parents |-> class_name_of(parents[i], <<>>)])
                       \o (IF Len(parents) > 1
                           THEN <<"I", "n", "n", "e", "r", "C", "l", "a", "s", "s">>
                           ELSE <<>>),
                   class_safe_prefix, TRUE)
    ELSE safe_name(StripNs(name), class_safe_prefix, TRUE)

\* self.class_name(name)
class_name(name) == class_name_of(name, <<>>)

RECURSIVE Filters_class_name_of(_, _)
\* Filters.class_name(name, parents): the base class does not strip the namespace
Filters_class_name_of(name, parents) ==
    IF HasKey(class_aliases, name) /\ Get(class_aliases, name) # <<>>
    THEN Get(class_aliases, name)
    ELSE IF parents # <<>>
    THEN safe_name(Concat([i \in DOMAIN parents |-> Filters_class_name_of(parents[i], <<>>)]),
                   class_safe_prefix, TRUE)
    ELSE safe_name(name, class_safe_prefix, TRUE)

Filters_class_name(name) == Filters_class_name_of(name, <<>>)

\* Filters.field_name(name, class_name)
field_name(name) ==
    IF HasKey(field_aliases, name) /\ Get(field_aliases, name) # <<>>
    THEN Get(field_aliases, name)
    ELSE safe_name(name, field_safe_prefix, FALSE)

\* the text a filter returns
Text(s) == [ok |-> TRUE, text |-> s]

\* a call whose loop comes back to a state it was in before: it never returns
NeverReturns(about) == [ok |-> FALSE, error |-> "never returns", about |-> about]

\* SqlAlchemyTemplateFilters.table_name(parents); the identifier limit of Postgres
MaxIdentifier == 63

RECURSIVE DropLeading(_)
\* while len(table_name) > 63: table_name = table_name.split("__", 1)[-1]
\* split returns a name with no "__" in it unchanged, so the loop assigns the same name
\* for ever
DropLeading(name) ==
    IF Len(name) <= MaxIdentifier THEN Text(name)
    ELSE LET at == {i \in 1..(Len(name) - 1) : name[i] = "_" /\ name[i + 1] = "_"}
         IN  IF at = {} THEN NeverReturns(name)
             ELSE DropLeading(SubSeq(name, (CHOOSE i \in at : \A j \in at : i <= j) + 2, Len(name)))

\* lines 51-55: the "__"-joined field-cased class names of the parents
joined_name(parents) ==
    Join([i \in DOMAIN parents |-> field_case(class_name(parents[i]))], <<"_", "_">>)

\* a call of table_name(parents): the text it returns, if it returns
table_name_call(parents) == DropLeading(joined_name(parents))

\* the value of table_name(parents) where a caller goes on with it
table_name(parents) == table_name_call(parents).text

\* Filters.table_name(parents) of the base filters: the same loop, the base class_name
Filters_joined_name(parents) ==
    Join([i \in DOMAIN parents |-> field_case(Filters_class_name(parents[i]))], <<"_", "_">>)

Filters_table_name_call(parents) == DropLeading(Filters_joined_name(parents))

Filters_table_name(parents) == Filters_table_name_call(parents).text

-----------------------------------------------------------------------------
(* Type classifier                                                         *)

\* the Python type names the filters compare with
T_bool == <<"b", "o", "o", "l">>
T_int == <<"i", "n", "t">>
T_Decimal == <<"D", "e", "c", "i", "m", "a", "l">>
T_str == <<"s", "t", "r">>
T_dict == <<"d", "i", "c", "t">>
T_object == <<"o", "b", "j", "e", "c", "t">>
T_float == <<"f", "l", "o", "a", "t">>
T_datetime == <<"d", "a", "t", "e", "t", "i", "m", "e">>
T_XmlDateTime == <<"X", "m", "l", "D", "a", "t", "e", "T", "i", "m", "e">>
T_XmlDate == <<"X", "m", "l", "D", "a", "t", "e">>
T_XmlDuration == <<"X", "m", "l", "D", "u", "r", "a", "t", "i", "o", "n">>
T_XmlTime == <<"X", "m", "l", "T", "i", "m", "e">>
T_bytes == <<"b", "y", "t", "e", "s">>
T_date == <<"d", "a", "t", "e">>
T_time == <<"t", "i", "m", "e">>

\* the list literal of SqlAlchemyTemplateFilters.is_complex_type (XmlDateTime is in it
\* twice)
PrimitiveList ==
    <<T_bool, T_int, T_Decimal, T_str, T_dict, T_object, T_float, T_datetime, T_XmlDateTime,
      T_XmlDate, T_XmlDateTime, T_XmlDuration, T_XmlTime, T_bytes>>

\* the set literal of SqlAlchemyTemplateFilters.has_complex_types
PrimitiveNames ==
    {T_bool, T_int, T_Decimal, T_str, T_dict, T_object, T_float, T_datetime, T_XmlDateTime, T_XmlDate, T_XmlDuration, T_XmlTime, T_bytes}

\* is_complex_type that takes float for a class: a list without "float"
is_complex_type_no_float(type_name) == type_name \notin (Range(PrimitiveList) \ {T_float})

\* SqlAlchemyTemplateFilters.is_complex_type: type_name not in [...]
is_complex_type(type_name) == type_name \notin Range(PrimitiveList)

\* SqlAlchemyTemplateFilters.has_complex_types: bool(set(type_names) - {...})
has_complex_types(type_names) == (Range(type_names) \ PrimitiveNames) # {}

\* the list literal of Filters.is_complex_type
Filters_PrimitiveList ==
    <<T_bool, T_int, T_Decimal, T_str, T_dict, T_object, T_float, T_datetime, T_XmlDateTime,
      T_bytes>>

\* the set literal of Filters.has_complex_types
Filters_PrimitiveNames ==
    {T_bool, T_int, T_Decimal, T_str, T_dict, T_object, T_float, T_datetime, T_XmlDateTime, T_bytes}

\* Filters.is_complex_type
Filters_is_complex_type(type_name) == type_name \notin Range(Filters_PrimitiveList)

\* Filters.has_complex_types
Filters_has_complex_types(type_names) == (Range(type_names) \ Filters_PrimitiveNames) # {}

-----------------------------------------------------------------------------
(* The class graph (xsdata.codegen.models): Class, Attr, AttrType          *)

\* AttrType.name: the local part of the qualified name
local_name(qname) ==
    LET closes == {i \in DOMAIN qname : qname[i] = "}"}
    IN  IF qname # <<>> /\ qname[1] = "{" /\ closes # {}
        THEN SubSeq(qname, (CHOOSE i \in closes : \A j \in closes : i <= j) + 1, Len(qname))
        ELSE qname

\* Filters.type_name, with the class_name of the SQLAlchemy filters
type_name(attr_type) ==
    IF attr_type.datatype # None THEN attr_type.datatype
    ELSE class_name(IF attr_type.alias # None THEN attr_type.alias
                    ELSE local_name(attr_type.qname))

Quote == <<"\"">>

\* Filters.field_type_name
field_type_name(attr_type, parents) ==
    LET name      == type_name(attr_type)
        outer_str == Join([i \in DOMAIN parents |-> class_name(parents[i])], Dot)
    IN  IF attr_type.forward /\ attr_type.circular THEN Quote \o outer_str \o Quote
        ELSE IF attr_type.forward THEN Quote \o outer_str \o Dot \o name \o Quote
        ELSE IF attr_type.circular THEN Quote \o name \o Quote
        ELSE name

RECURSIVE unique_sequence(_, _)
\* collections.unique_sequence: the first occurrence of each item, in order
unique_sequence(items, seen) ==
    IF items = <<>> THEN <<>>
    ELSE IF Head(items) \in seen THEN unique_sequence(Tail(items), seen)
    ELSE <<Head(items)>> \o unique_sequence(Tail(items), seen \cup {Head(items)})

\* SqlAlchemyTemplateFilters.type_names
type_names(attr, parents) ==
    unique_sequence([i \in DOMAIN attr.types |-> field_type_name(attr.types[i], parents)], {})

RECURSIVE Struct(_, _)
\* the value of a Class object, which is what the dataclass __eq__ compares
Struct(h, c) ==
    [qname |-> h[c].qname, attrs |-> h[c].attrs, extensions |-> h[c].extensions,
     is_enumeration |-> h[c].is_enumeration,
     inner |-> [i \in DOMAIN h[c].inner |-> Struct(h, h[c].inner[i])]]

\* clazz == obj
ClassEq(h, c, d) == Struct(h, c) = Struct(h, d)

-----------------------------------------------------------------------------
(* Qualified-name resolver                                                 *)

RECURSIVE set_class_fully_qualified_names(_, _, _, _)
\* SqlAlchemyTemplateFilters.set_class_fully_qualified_names: the loop over the values
\* that `continue`s on an equal class continues that inner loop only, so every class
\* is stored; map is self.fqname_map as built so far
set_class_fully_qualified_names(h, cls, parent_fqdn, map) ==
    IF cls = <<>> THEN map
    ELSE LET clazz  == Head(cls)
             name   == class_name(h[clazz].qname)
             fqdn   == IF parent_fqdn # <<>> THEN Join(<<parent_fqdn, name>>, Dot) ELSE name
             stored == Put(map, fqdn, clazz)
             below  == IF h[clazz].inner # <<>>
                       THEN set_class_fully_qualified_names(h, h[clazz].inner, fqdn, stored)
                       ELSE stored
         IN  set_class_fully_qualified_names(h, Tail(cls), parent_fqdn, below)

\* SqlAlchemyTemplateFilters.find_fqname_by_class: the first key whose value is obj itself
\* (id(obj) == id(clazz)), None when there is none
find_fqname_by_class(obj) ==
    LET at == {i \in DOMAIN fqname_map : fqname_map[i].val = obj}
    IN  IF at = {} THEN None
        ELSE fqname_map[CHOOSE i \in at : \A j \in at : i <= j].key

Found(fqdn, clazz) == [ok |-> TRUE, fqname |-> fqdn, cls |-> clazz]
Raised(what, about) == [ok |-> FALSE, error |-> what, about |-> about]

\* possible_fqdn of find_class_by_qname: the converted parents joined with the short name
possible_fqdn(qname, parents) ==
    Join([i \in DOMAIN parents |-> class_name(parents[i])] \o <<class_name(qname)>>, Dot)

\* the lookup without the scan for a key that ends with the path or the name: only
\* the exact path and the bare short name are found
lookup_exact_only(name, possible) ==
    IF HasKey(fqname_map, possible)
    THEN Found(possible, Get(fqname_map, possible))
    ELSE IF HasKey(fqname_map, name)
    THEN Found(name, Get(fqname_map, name))
    ELSE Raised("Can't find class for qname", name)

\* the three steps of find_class_by_qname (lines 407-418) for the converted short name
\* and the dotted path: the exact path, else the bare short name, else the first key in
\* the dict's order that ends with either of them
lookup(name, possible) ==
    LET hits == {i \in DOMAIN fqname_map :
                    \/ EndsWith(fqname_map[i].key, possible)
                    \/ EndsWith(fqname_map[i].key, name)}
    IN  IF HasKey(fqname_map, possible)
        THEN Found(possible, Get(fqname_map, possible))
        ELSE IF HasKey(fqname_map, name)
        THEN Found(name, Get(fqname_map, name))
        ELSE IF hits # {}
        THEN Found(fqname_map[CHOOSE x \in hits : \A y \in hits : x <= y].key,
                   fqname_map[CHOOSE x \in hits : \A y \in hits : x <= y].val)
        ELSE Raised("Can't find class for qname", name)

\* find_class_by_qname that never looks for the bare short name: the dotted path alone
\* is looked up and scanned for
find_class_by_qname_no_bare(qname, parents) ==
    lookup(possible_fqdn(qname, parents), possible_fqdn(qname, parents))

\* SqlAlchemyTemplateFilters.find_class_by_qname
find_class_by_qname(qname, parents) ==
    lookup(class_name(qname), possible_fqdn(qname, parents))

-----------------------------------------------------------------------------
(* Relationship inferencer                                                 *)

Us  == <<"_">>
Id_ == <<"_", "i", "d">>

\* the declaration strings appended to relationships, by their parts
ForeignKeyField(name, table) ==
    [kind |-> "foreign_key", name |-> name, table |-> table, target |-> None,
     foreign_keys |-> None, back_populates |-> None, collection |-> FALSE]

RelationshipField(name, target, foreign_keys, back_populates, collection) ==
    [kind |-> "relationship", name |-> name, table |-> None, target |-> target,
     foreign_keys |-> foreign_keys, back_populates |-> back_populates,
     collection |-> collection]

Fields(fs) == [ok |-> TRUE, fields |-> fs]

\* the fields build_backwards_relationships appends (lines 296-320) for an attribute that
\* resolves to obj: name is <class>_<attr>, fqname the class name of the referencing class
appended(ref_attr, ref_attr_class, full_class_name, fqname, attr_name, name) ==
    IF ref_attr.is_list
    THEN <<ForeignKeyField(name \o Id_, table_name(Split(full_class_name, "."))),
           RelationshipField(name, fqname, name \o Id_, attr_name, FALSE)>>
    ELSE IF ~heap[ref_attr_class].is_enumeration
    THEN <<RelationshipField(name, fqname, fqname \o Dot \o attr_name \o Id_, attr_name, TRUE)>>
    ELSE <<>>

\* lines 291-320 of build_backwards_relationships
backref_fields(clazz, ref_attr, ref_attr_class, full_class_name) ==
    appended(ref_attr, ref_attr_class, full_class_name,
             IF Contains(full_class_name, Dot)
             THEN class_name_of(<<>>, Split(full_class_name, "."))
             ELSE class_name(full_class_name),
             field_case(ref_attr.name),
             field_case(class_name(heap[clazz].qname)) \o Us \o field_case(ref_attr.name))

RECURSIVE backrefs_of_attrs(_, _, _, _)
RECURSIVE build_backwards_relationships(_, _, _)

\* one turn of the loop over clazz.attrs (lines 267-320) for the attribute ref_attr;
\* found is what find_class_by_qname returns for its first type
backrefs_of_attr(obj, clazz, attrs, acc, ref_attr, full_class_name, found) ==
    IF ~has_complex_types(type_names(ref_attr, <<class_name(heap[clazz].qname)>>))
    THEN backrefs_of_attrs(obj, clazz, Tail(attrs), acc)
    ELSE IF full_class_name = None
    THEN Raised("AttributeError: 'NoneType' object has no attribute 'split'", heap[clazz].qname)
    ELSE IF ~found.ok THEN found
    ELSE IF found.fqname = find_fqname_by_class(obj)
    THEN backrefs_of_attrs(obj, clazz, Tail(attrs),
             Fields(acc.fields \o backref_fields(clazz, ref_attr, found.cls, full_class_name)))
    ELSE backrefs_of_attrs(obj, clazz, Tail(attrs), acc)

\* the loop over clazz.attrs of build_backwards_relationships; acc is what the call has
\* appended so far, or the exception that ended it
backrefs_of_attrs(obj, clazz, attrs, acc) ==
    IF ~acc.ok \/ attrs = <<>> THEN acc
    ELSE backrefs_of_attr(obj, clazz, attrs, acc, Head(attrs), find_fqname_by_class(clazz),
             find_class_by_qname(Head(attrs).types[1].qname,
                                 Split(find_fqname_by_class(clazz), ".")))

\* lines 322-323: the recursion into clazz.inner, after the attributes of clazz
backrefs_of_inner(obj, clazz, own) ==
    IF own.ok /\ heap[clazz].inner # <<>>
    THEN build_backwards_relationships(obj, heap[clazz].inner, own)
    ELSE own

\* SqlAlchemyTemplateFilters.build_backwards_relationships(obj, classes, relationships):
\* a class equal to obj is skipped by `continue`, and its inner classes with it
build_backwards_relationships(obj, cls, acc) ==
    IF ~acc.ok \/ cls = <<>> THEN acc
    ELSE IF ClassEq(heap, Head(cls), obj)
    THEN build_backwards_relationships(obj, Tail(cls), acc)
    ELSE build_backwards_relationships(obj, Tail(cls),
             backrefs_of_inner(obj, Head(cls),
                 backrefs_of_attrs(obj, Head(cls), heap[Head(cls)].attrs, acc)))

\* SqlAlchemyTemplateFilters.relationship_backrefs(obj, parents): a fresh list each call
relationship_backrefs(obj) == build_backwards_relationships(obj, classes, Fields(<<>>))

Value(v) == [ok |-> TRUE, value |-> v]

\* line 331, for the class found
many_to_one(attr, found) ==
    IF ~found.ok THEN found
    ELSE IF ~(attr.is_list \/ attr.is_enumeration \/ heap[found.cls].is_enumeration)
    THEN Value("True")
    ELSE Value("False")

\* SqlAlchemyTemplateFilters.is_many_to_one: "None" when the attribute has no complex type
is_many_to_one(attr, parents) ==
    IF ~has_complex_types(type_names(attr, parents)) THEN Value("None")
    ELSE many_to_one(attr, find_class_by_qname(attr.types[1].qname, parents))

-----------------------------------------------------------------------------
(* Column / type mapper                                                    *)

N_trKioskOrder        == <<"t", "r", "K", "i", "o", "s", "k", "O", "r", "d", "e", "r">>
N_trRecall            == <<"t", "r", "R", "e", "c", "a", "l", "l">>
N_transmissionHeader_1 == <<"t", "r", "a", "n", "s", "m", "i", "s", "s", "i", "o", "n", "H", "e", "a", "d", "e", "r", "_", "1">>
N_transmissionHeader1 == <<"t", "r", "a", "n", "s", "m", "i", "s", "s", "i", "o", "n", "H", "e", "a", "d", "e", "r", "1">>

\* a Column that is never an array
Column_scalar(type, attr) == [ok |-> TRUE, kind |-> "Column", type |-> type, array |-> FALSE]

Column(type, attr) == [ok |-> TRUE, kind |-> "Column", type |-> type, array |-> attr.is_list]

Relationship(cls, back_populates, foreign_keys, primaryjoin) ==
    [ok |-> TRUE, kind |-> "relationship", cls |-> cls, back_populates |-> back_populates,
     foreign_keys |-> foreign_keys, primaryjoin |-> primaryjoin]

\* the names that are complex, in order (the list comprehension of line 123)
ComplexOnly(names) == SelectSeq(names, is_complex_type)

\* the relationship declarations of sql_alchemy_column (lines 161-179); back is
\* <class>_<attr>, the name of the field on the other side
relationship_of(name, attr, relationship_class_name, back) ==
    IF attr.is_list /\ name = N_trKioskOrder
    THEN Relationship(relationship_class_name, None, None,
                      "TrHeaderType.id==TrTickNum.tr_header_type_tr_kiosk_order_id")
    ELSE IF attr.is_list /\ name = N_trRecall
    THEN Relationship(relationship_class_name, None, None,
                      "TrRecall.tr_header_type_tr_recall_id==TrHeaderType.id")
    ELSE IF attr.is_list
    THEN Relationship(relationship_class_name, back,
                      relationship_class_name \o Dot \o back \o Id_, "")
    ELSE Relationship(relationship_class_name, back, field_name(attr.name) \o Id_, "")

\* the bandaid of lines 165-166: parents[0] is rewritten in place for list attributes
bandaid(attr, parents) ==
    IF attr.is_list /\ parents[1] = N_transmissionHeader_1
    THEN [parents EXCEPT ![1] = N_transmissionHeader1]
    ELSE parents

\* lines 153-179 of sql_alchemy_column, for an attribute that resolved to a class that is
\* no enumeration
relationship_column(name, attr, parents, tname) ==
    IF attr.is_tokens THEN Raised("No idea how to handle lists of lists", attr.name)
    ELSE IF parents = <<>> THEN Raised("IndexError: list index out of range", attr.name)
    ELSE relationship_of(name, attr,
             IF Contains(tname, Dot) THEN class_name_of(<<>>, Split(tname, "."))
             ELSE class_name(tname),
             field_name(Last(bandaid(attr, parents))) \o Us \o field_name(attr.name))

\* lines 127-193 of sql_alchemy_column: names is type_names after line 123, type_name_
\* is type_name after line 125, found what find_class_by_qname returns
column_of(name, attr, parents, names, type_name_, found) ==
    IF type_name_ \in {T_dict, T_object} THEN Column("XmlJSONB", attr)
    ELSE IF type_name_ = T_bytes THEN Column("LargeBinary()", attr)
    ELSE IF type_name_ \in {T_datetime, T_XmlDateTime} THEN Column("SqlXmlDateTime", attr)
    ELSE IF type_name_ \in {T_date, T_XmlDate} THEN Column("SqlXmlDate", attr)
    ELSE IF type_name_ \in {T_time, T_XmlTime} THEN Column("SqlXmlTime", attr)
    ELSE IF type_name_ = T_XmlDuration THEN Column("SqlXmlDuration", attr)
    ELSE IF type_name_ = T_bool THEN Column("Boolean", attr)
    ELSE IF type_name_ = T_int THEN Column("Integer", attr)
    ELSE IF type_name_ = T_Decimal THEN Column("Numeric", attr)
    ELSE IF type_name_ = T_str \/ Len(names) > 1 THEN Column("String", attr)
    ELSE IF has_complex_types(names)
    THEN IF ~found.ok THEN found
         ELSE IF heap[found.cls].is_enumeration THEN Column("StringEnum", attr)
         ELSE relationship_column(name, attr, parents, type_name_)
    ELSE Raised("Could not find matching SQL Type for XML Type(s)", names)

\* lines 122-123: the names of a union are cut down to the complex ones
column_names(all) == IF Len(all) > 1 THEN ComplexOnly(all) ELSE all

\* lines 119-125: the first name, or the one complex name of a union
column_type_name(all, names) == IF Len(all) > 1 /\ Len(names) = 1 THEN names[1] ELSE all[1]

\* SqlAlchemyTemplateFilters.sql_alchemy_column(name, attr, parent_namespace, parents)
sql_alchemy_column(name, attr, parents) ==
    column_of(name, attr, parents, column_names(type_names(attr, parents)),
              column_type_name(type_names(attr, parents),
                               column_names(type_names(attr, parents))),
              find_class_by_qname(attr.types[1].qname, parents))

\* metadata["name"] of Filters.field_metadata, the name sql_alchemy_column is given: the
\* local name when the field name differs from it
metadata_name(attr) == IF attr.name # field_name(attr.name) THEN attr.name ELSE None

\* SqlAlchemyTemplateFilters.field_metadata, as far as its "sa" entry
field_metadata(attr, parents) == sql_alchemy_column(metadata_name(attr), attr, parents)

\* OutputFormat of the configuration (config.output.format), at its defaults
format_frozen  == FALSE
format_kw_only == FALSE

S_Union    == <<"U", "n", "i", "o", "n", "[">>
S_List     == <<"L", "i", "s", "t", "[">>
S_Tuple    == <<"T", "u", "p", "l", "e", "[">>
S_Optional == <<"O", "p", "t", "i", "o", "n", "a", "l", "[">>
S_Ellipsis == <<",", " ", ".", ".", ".", "]">>
CommaSpace == <<",", " ">>
Close      == <<"]">>

\* iterable.format(result) of field_type (line 233)
iterable(result) ==
    IF format_frozen THEN S_Tuple \o result \o S_Ellipsis ELSE S_List \o result \o Close

\* lines 217-221 and 229-231 of field_type: the key find_class_by_qname returns, unless
\* it is `in` the name
resolved_name(name, found) ==
    IF ~found.ok THEN found
    ELSE IF ~Contains(name, found.fqname) THEN Text(found.fqname)
    ELSE Text(name)

\* lines 210-231 of field_type: names is type_names, found what find_class_by_qname
\* returns for the first type
field_type_result(names, found) ==
    IF Len(names) > 1
    THEN IF has_complex_types(names) /\ Len(ComplexOnly(names)) = 1
         THEN resolved_name(ComplexOnly(names)[1], found)
         ELSE Text(S_Union \o Join(names, CommaSpace) \o Close)
    ELSE IF has_complex_types(names) THEN resolved_name(names[1], found)
    ELSE Text(Join(names, CommaSpace))

\* lines 233-254 of field_type: the wrappers by cardinality, the refusal of a dict and
\* the Optional of a field without a value
field_type_of(attr, r) ==
    IF ~r.ok THEN r
    ELSE IF attr.is_list
    THEN Text(iterable(IF attr.is_tokens THEN iterable(r.text) ELSE r.text))
    ELSE IF attr.is_tokens THEN Text(iterable(r.text))
    ELSE IF attr.is_dict THEN Raised("Dict is not supported type for DB", attr.name)
    ELSE IF \/ attr.is_nillable
            \/ attr.default = None /\ (attr.is_optional \/ ~format_kw_only)
    THEN Text(S_Optional \o r.text \o Close)
    ELSE r

\* SqlAlchemyTemplateFilters.field_type(attr, parents)
field_type(attr, parents) ==
    field_type_of(attr, field_type_result(type_names(attr, parents),
                            find_class_by_qname(attr.types[1].qname, parents)))

\* an Extension of a class (xsdata.codegen.models): the base type it names
Extension(type) == [type |-> type]

RECURSIVE extension_attrs_from(_, _)
\* one round of the loop of extension_attrs: get_class_for_extension returns None for a
\* type that is not complex, and clazz.attrs on None raises; found is what
\* find_class_by_qname(extension.type.qname, []) returns
extension_attrs_step(extensions, attrs, found) ==
    IF ~is_complex_type(type_name(Head(extensions).type))
    THEN Raised("AttributeError: 'NoneType' object has no attribute 'attrs'",
                Head(extensions).type.qname)
    ELSE IF ~found.ok THEN found
    ELSE extension_attrs_from(Tail(extensions), attrs \o heap[found.cls].attrs)

\* the loop of extension_attrs, attrs being the list so far
extension_attrs_from(extensions, attrs) ==
    IF extensions = <<>> THEN [ok |-> TRUE, attrs |-> attrs]
    ELSE extension_attrs_step(extensions, attrs,
             find_class_by_qname(Head(extensions).type.qname, <<>>))

\* SqlAlchemyTemplateFilters.extension_attrs(extensions)
extension_attrs(extensions) == extension_attrs_from(extensions, <<>>)

\* the field relationship_definition returns: a column with a foreign key to table.id
ForeignKeyColumn(table) ==
    [ok |-> TRUE, kind |-> "field", foreign_key |-> table \o Dot \o <<"i", "d">>]

RECURSIVE base_table(_, _)
\* one round of the loop of lines 346-355: a ValueError of find_class_by_qname ends the
\* walk at the name that was not found
base_table_step(table_qname, rounds, found) ==
    IF ~found.ok THEN Text(table_qname)
    ELSE IF heap[found.cls].extensions # <<>>
    THEN base_table(class_name(heap[found.cls].extensions[1].type.qname), rounds + 1)
    ELSE Text(table_qname)

\* the while loop of relationship_definition, from table_qname on: after more rounds
\* than there are classes a class has come up twice, and the loop goes round for ever
base_table(table_qname, rounds) ==
    IF rounds > Len(heap) THEN NeverReturns(table_qname)
    ELSE base_table_step(table_qname, rounds, find_class_by_qname(table_qname, <<>>))

\* lines 356-361: the foreign key to the table of the base class
foreign_key_to(base) ==
    IF ~base.ok THEN base ELSE ForeignKeyColumn(table_name(<<base.text>>))

\* lines 338-361 of relationship_definition, found being what find_class_by_qname
\* returns for the attribute's first type
definition_of(found) ==
    IF ~found.ok THEN found
    ELSE IF heap[found.cls].extensions # <<>>
    THEN IF Len(heap[found.cls].extensions) > 1
         THEN Raised("More than one inherited class is unsupported for SQLAlchemy",
                     heap[found.cls].qname)
         ELSE foreign_key_to(base_table(class_name(heap[found.cls].extensions[1].type.qname), 1))
    ELSE ForeignKeyColumn(table_name(Split(found.fqname, ".")))

\* SqlAlchemyTemplateFilters.relationship_definition(attr, ns_map, parent_namespace, parents)
relationship_definition(attr, parents) ==
    definition_of(find_class_by_qname(attr.types[1].qname, parents))

-----------------------------------------------------------------------------
(* The base filters (dataclass format): resolver and relationship inference *)
(* These methods assign clazz.fqname and fill the class-level _fqname_map, *)
(* so each takes the heap h and the cache and returns them with its result. *)

\* Filters.type_name, with the class_name of the base filters
Filters_type_name(attr_type) ==
    IF attr_type.datatype # None THEN attr_type.datatype
    ELSE Filters_class_name(IF attr_type.alias # None THEN attr_type.alias
                            ELSE local_name(attr_type.qname))

Filters_field_type_name(attr_type, parents) ==
    LET name      == Filters_type_name(attr_type)
        outer_str == Join([i \in DOMAIN parents |-> Filters_class_name(parents[i])], Dot)
    IN  IF attr_type.forward /\ attr_type.circular THEN Quote \o outer_str \o Quote
        ELSE IF attr_type.forward THEN Quote \o outer_str \o Dot \o name \o Quote
        ELSE IF attr_type.circular THEN Quote \o name \o Quote
        ELSE name

Filters_type_names(attr, parents) ==
    unique_sequence([i \in DOMAIN attr.types |-> Filters_field_type_name(attr.types[i], parents)],
                    {})

\* Filters.convert_primitive_types, in place on the list
convert_primitive_types(names) ==
    [i \in DOMAIN names |-> IF names[i] = T_XmlDateTime THEN T_datetime ELSE names[i]]

\* type_names, convert_primitive_types, has_complex_types as the inference calls them
Filters_is_relational(attr) ==
    Filters_has_complex_types(convert_primitive_types(Filters_type_names(attr, <<>>)))

RECURSIVE Filters_compare_class(_, _, _, _)
RECURSIVE Filters_compare_inner(_, _, _, _)

\* lines 319-329 of _compare_class, hier being the hierachy with clazz added: match is 0
\* for None; a match has its fqname assigned
compare_at(h, hier, clazz, qname) ==
    IF Last(Split(hier, ".")) = Filters_class_name(qname)
    THEN [h |-> [h EXCEPT ![clazz].fqname = hier], match |-> clazz]
    ELSE Filters_compare_inner(h, hier, h[clazz].inner, qname)

\* Filters._compare_class(hierachy, clazz, qname)
Filters_compare_class(h, hierachy, clazz, qname) ==
    compare_at(h,
               IF hierachy # <<>>
               THEN hierachy \o Dot \o Filters_class_name(h[clazz].qname)
               ELSE Filters_class_name(h[clazz].qname),
               clazz, qname)

\* lines 324-329 for one inner class, r1 being what the first call returned: the second
\* call's result is dropped, what it assigned stays
compare_rest(hier, inner, qname, r1) ==
    IF r1.match # 0 THEN r1
    ELSE Filters_compare_inner(
             Filters_compare_class(r1.h, hier, Head(inner), Last(Split(qname, "."))).h,
             hier, Tail(inner), qname)

\* the loop over clazz.inner of _compare_class
Filters_compare_inner(h, hier, inner, qname) ==
    IF inner = <<>> THEN [h |-> h, match |-> 0]
    ELSE compare_rest(hier, inner, qname, Filters_compare_class(h, hier, Head(inner), qname))

RECURSIVE Filters_find_among(_, _, _, _, _)

\* one turn of a loop of find_class_by_qname, r being what _compare_class returned
find_rest(cls, qname, parents, among_parents, r) ==
    IF r.match # 0 THEN r
    ELSE Filters_find_among(r.h, Tail(cls), qname, parents, among_parents)

\* one of the two loops of Filters.find_class_by_qname: among_parents is TRUE for the
\* first, which looks only at the classes whose qname is in parents
Filters_find_among(h, cls, qname, parents, among_parents) ==
    IF cls = <<>> THEN [h |-> h, match |-> 0]
    ELSE IF among_parents /\ h[Head(cls)].qname \notin Range(parents)
    THEN Filters_find_among(h, Tail(cls), qname, parents, among_parents)
    ELSE find_rest(cls, qname, parents, among_parents,
                   Filters_compare_class(h, <<>>, Head(cls), qname))

\* what find_class_by_qname returns or raises: ok is FALSE for the ValueError
Resolved(r) == [ok |-> r.match # 0, h |-> r.h, match |-> r.match]

\* lines 338-344: the second loop, r1 being the outcome of the first
find_anywhere(qname, parents, r1) ==
    IF r1.match # 0 THEN Resolved(r1)
    ELSE Resolved(Filters_find_among(r1.h, classes, qname, parents, FALSE))

\* Filters.find_class_by_qname(qname, parents)
Filters_find_class_by_qname(h, qname, parents) ==
    find_anywhere(qname, parents, Filters_find_among(h, classes, qname, parents, TRUE))

RECURSIVE Filters_fqname_recursive(_, _, _)
\* Filters._fqname_recursive(obj, class_list): the dotted path of unconverted qnames
Filters_fqname_recursive(h, obj, class_list) ==
    IF class_list = <<>> THEN None
    ELSE LET clazz == Head(class_list)
             inner_clazz_result == Filters_fqname_recursive(h, obj, h[clazz].inner)
         IN  IF h[clazz].qname = h[obj].qname THEN h[obj].qname
             ELSE IF h[clazz].inner # <<>> /\ inner_clazz_result # None
             THEN h[clazz].qname \o Dot \o inner_clazz_result
             ELSE Filters_fqname_recursive(h, obj, Tail(class_list))

\* Filters.fqname(obj), memoised in _fqname_map by id(obj)
Filters_fqname(h, cache, obj) ==
    LET filled == IF HasKey(cache, obj) THEN cache
                  ELSE Put(cache, obj, Filters_fqname_recursive(h, obj, classes))
    IN  [cache |-> filled, value |-> Get(filled, obj)]

\* x.fqname if x.fqname else self.fqname(x)
Filters_fqname_of(h, cache, x) ==
    IF h[x].fqname # None THEN [cache |-> cache, value |-> h[x].fqname]
    ELSE Filters_fqname(h, cache, x)

\* the heap, the cache and the list `relationships` while an inference call runs
World(h, cache, fields) ==
    [ok |-> TRUE, h |-> h, cache |-> cache, fields |-> fields, error |-> None, about |-> None]

Failed(h, cache, what, about) ==
    [ok |-> FALSE, h |-> h, cache |-> cache, fields |-> <<>>, error |-> what, about |-> about]

CantFind == "ValueError: Can't find class for qname"
NoSplit  == "AttributeError: 'NoneType' object has no attribute 'split'"

RECURSIVE Filters_backrefs_of_attrs(_, _, _, _)
RECURSIVE Filters_build_backwards_relationships(_, _, _)

\* lines 246-253: the two fields for a list-valued attribute of clazz that refers to obj
Filters_appended(w, obj, clazz, attrs, found, full_class_name, qname) ==
    IF full_class_name.value = None
    THEN Failed(found.h, full_class_name.cache, NoSplit, w.h[clazz].qname)
    ELSE Filters_backrefs_of_attrs(
             World(found.h, full_class_name.cache,
                   w.fields \o
                   <<ForeignKeyField(qname \o Id_,
                         Filters_table_name(Split(full_class_name.value, "."))),
                     RelationshipField(qname, Filters_class_name(full_class_name.value),
                         qname \o Id_, field_case(Head(attrs).name), FALSE)>>),
             obj, clazz, Tail(attrs))

\* lines 241-255, found being what find_class_by_qname returned and obj_fqname
\* `obj.fqname if obj.fqname else self.fqname(obj)` after it
Filters_backref(w, obj, clazz, attrs, found, obj_fqname) ==
    IF found.h[found.match].fqname # obj_fqname.value \/ ~Head(attrs).is_list
    THEN Filters_backrefs_of_attrs(World(found.h, obj_fqname.cache, w.fields),
                                   obj, clazz, Tail(attrs))
    ELSE Filters_appended(w, obj, clazz, attrs, found,
                          Filters_fqname_of(found.h, obj_fqname.cache, clazz),
                          field_case(w.h[clazz].qname))

\* line 240, found being what find_class_by_qname returned
Filters_resolved(w, obj, clazz, attrs, found) ==
    IF ~found.ok THEN Failed(found.h, w.cache, CantFind, Head(attrs).types[1].qname)
    ELSE Filters_backref(w, obj, clazz, attrs, found, Filters_fqname_of(found.h, w.cache, obj))

\* the loop over clazz.attrs of Filters.build_backwards_relationships
Filters_backrefs_of_attrs(w, obj, clazz, attrs) ==
    IF ~w.ok \/ attrs = <<>> THEN w
    ELSE IF ~Filters_is_relational(Head(attrs))
    THEN Filters_backrefs_of_attrs(w, obj, clazz, Tail(attrs))
    ELSE Filters_resolved(w, obj, clazz, attrs,
             Filters_find_class_by_qname(w.h, Head(attrs).types[1].qname, <<w.h[clazz].qname>>))

\* line 257: the recursion into clazz.inner, after the attributes of clazz
Filters_backrefs_of_inner(obj, clazz, own) ==
    Filters_build_backwards_relationships(own, obj, own.h[clazz].inner)

\* Filters.build_backwards_relationships(obj, classes, relationships, parents)
Filters_build_backwards_relationships(w, obj, cls) ==
    IF ~w.ok \/ cls = <<>> THEN w
    ELSE IF ClassEq(w.h, Head(cls), obj)
    THEN Filters_build_backwards_relationships(w, obj, Tail(cls))
    ELSE Filters_build_backwards_relationships(
             Filters_backrefs_of_inner(obj, Head(cls),
                 Filters_backrefs_of_attrs(w, obj, Head(cls), w.h[Head(cls)].attrs)),
             obj, Tail(cls))

RECURSIVE build_relationships(_, _, _, _)

\* lines 271-275: the foreign key for a scalar attribute of obj
forward_key(w, obj, attrs, parents, found, full_class_name) ==
    IF full_class_name.value = None
    THEN Failed(found.h, full_class_name.cache, NoSplit, found.h[found.match].qname)
    ELSE build_relationships(
             World(found.h, full_class_name.cache,
                   Append(w.fields,
                          ForeignKeyField(field_case(Head(attrs).name) \o Id_,
                              Filters_table_name(Split(full_class_name.value, "."))))),
             obj, Tail(attrs), parents)

\* lines 266-275, found being what find_class_by_qname returned
forward_resolved(w, obj, attrs, parents, found) ==
    IF ~found.ok THEN Failed(found.h, w.cache, CantFind, Head(attrs).types[1].qname)
    ELSE IF \/ Head(attrs).is_list
            \/ found.h[found.match].is_enumeration
            \/ Head(attrs).is_enumeration
    THEN build_relationships(World(found.h, w.cache, w.fields), obj, Tail(attrs), parents)
    ELSE forward_key(w, obj, attrs, parents, found,
                     Filters_fqname_of(found.h, w.cache, found.match))

\* Filters.build_relationships(obj, relationships, parents): the loop over obj.attrs
build_relationships(w, obj, attrs, parents) ==
    IF ~w.ok \/ attrs = <<>> THEN w
    ELSE IF ~Filters_is_relational(Head(attrs))
    THEN build_relationships(w, obj, Tail(attrs), parents)
    ELSE forward_resolved(w, obj, attrs, parents,
             Filters_find_class_by_qname(w.h, Head(attrs).types[1].qname, parents))

\* Filters.relationships(obj, parents): a fresh list, filled by the two passes
relationships(h, cache, obj, parents) ==
    Filters_build_backwards_relationships(
        build_relationships(World(h, cache, <<>>), obj, h[obj].attrs, parents), obj, classes)

\* what the caller of relationships sees: the list, or the exception
Outcome(w) == IF w.ok THEN Fields(w.fields) ELSE Raised(w.error, w.about)

-----------------------------------------------------------------------------
(* Class graphs given to set_classes                                       *)

\* the most classes in a graph
MaxClasses == 3

MkClass(qname, attrs, inner, extensions, is_enumeration) ==
    [qname |-> qname, attrs |-> attrs, inner |-> inner, extensions |-> extensions,
     is_enumeration |-> is_enumeration, fqname |-> None]

\* a forest over 1..n: par[i] is the class that holds i as an inner class, 0 for top level
Shapes(n) == {par \in [1..n -> 0..(n - 1)] : \A i \in 1..n : par[i] < i}

Kids(par, n, i) == SortedSeq({j \in 1..n : par[j] = i})

\* sibling classes are different schema types: their qualified names differ
DistinctSiblings(par, n, nm) ==
    \A i, j \in 1..n : (i # j /\ par[i] = par[j]) => nm[i] # nm[j]

N_A       == <<"A">>
N_B       == <<"B">>
N_Item    == <<"I", "t", "e", "m">>
N_nItem   == <<"{", "n", "}", "I", "t", "e", "m">>

\* the qualified names of the resolver's graphs: the same local name with and without a
\* namespace, and two enclosing names
ResolverQNames == {N_A, N_B, N_Item, N_nItem}

ResolverGraphsOf(n, par) ==
    {[classes |-> Kids(par, n, 0),
      heap    |-> [i \in 1..n |-> MkClass(nm[i], <<>>, Kids(par, n, i), <<>>, FALSE)]] :
        nm \in {f \in [1..n -> ResolverQNames] : DistinctSiblings(par, n, f)}}

ResolverGraphs ==
    UNION {UNION {ResolverGraphsOf(n, par) : par \in Shapes(n)} : n \in 1..MaxClasses}

\* the class that holds c as an inner class, 0 when c is top level
Holder(h, c) ==
    IF \E d \in DOMAIN h : c \in Range(h[d].inner)
    THEN CHOOSE d \in DOMAIN h : c \in Range(h[d].inner)
    ELSE 0

RECURSIVE Enclosing(_, _)
\* the enclosing classes of c, outermost first
Enclosing(h, c) ==
    IF Holder(h, c) = 0 THEN <<>> ELSE Append(Enclosing(h, Holder(h, c)), Holder(h, c))

\* the parents a template passes for c: the names of its enclosing classes
ParentsOf(h, c) == [i \in DOMAIN Enclosing(h, c) |-> local_name(h[Enclosing(h, c)[i]].qname)]

\* the dotted path of the converted names of c's enclosing classes and of c
CanonicalKey(h, c) ==
    Join([i \in DOMAIN ParentsOf(h, c) |-> class_name(ParentsOf(h, c)[i])]
             \o <<class_name(h[c].qname)>>, Dot)

\* every run of consecutive names of the chain from a top-level class down to a class
SubPaths(h) ==
    {<<>>} \cup
    UNION {{SubSeq(Append(ParentsOf(h, c), local_name(h[c].qname)), i, j) :
              i \in 1..(Len(ParentsOf(h, c)) + 1), j \in 1..(Len(ParentsOf(h, c)) + 1)} :
           c \in DOMAIN h}

-----------------------------------------------------------------------------
(* Class graphs with attributes, for the relationship inferencer           *)

\* the most attributes in a graph of the relationship inferencer
MaxAttrs == 2

MkType(qname, datatype) ==
    [qname |-> qname, alias |-> None, datatype |-> datatype, forward |-> FALSE,
     circular |-> FALSE]

\* a reference to a generated class, and a built-in type by its Python name
Complex(qname) == MkType(qname, None)
Builtin(name)  == MkType(<<"{", "x", "s", "}">> \o name, name)

MkAttr(name, types, is_list) ==
    [name |-> name, types |-> types, is_list |-> is_list, is_tokens |-> FALSE,
     is_dict |-> FALSE, is_enumeration |-> FALSE, is_optional |-> FALSE,
     is_nillable |-> FALSE]

\* the classes of these graphs, and the names of their attributes
RelNames  == <<"X", "Y">>
AttrNames == <<"a", "b", "c", "d", "e">>

\* a reference is [owner, target, is_list]; the attributes of a class are its references,
\* ordered by target and scalar before list, named a, b, ... in that order
Refs(n) == [owner : 1..n, target : 1..n, is_list : BOOLEAN]

RefCode(r) == 2 * r.target + (IF r.is_list THEN 1 ELSE 0)

AttrsOf(refs, qn, i) ==
    LET codes == SortedSeq({RefCode(r) : r \in {x \in refs : x.owner = i}})
    IN  [k \in DOMAIN codes |->
            MkAttr(<<AttrNames[k]>>, <<Complex(qn[codes[k] \div 2])>>, codes[k] % 2 = 1)]

RelGraph(n, par, refs, enum, qn) ==
    [classes |-> Kids(par, n, 0),
     heap    |-> [i \in 1..n |->
                     MkClass(qn[i], AttrsOf(refs, qn, i), Kids(par, n, i), <<>>, enum = i)]]

PlainNames(n) == [i \in 1..n |-> <<RelNames[i]>>]

\* every nesting of the first classes of RelNames, at most one of them an
\* enumeration, with up to MaxAttrs references between them
RelGraphs ==
    UNION {UNION {{RelGraph(n, par, refs, enum, PlainNames(n)) :
                      refs \in {rs \in SUBSET Refs(n) : Cardinality(rs) <= MaxAttrs},
                      enum \in 0..n} :
                  par \in Shapes(n)} :
           n \in 1..Len(RelNames)}

\* the parents a template passes with an attribute of c: the enclosing names and c's own
ParentsWithSelf(h, c) == Append(ParentsOf(h, c), local_name(h[c].qname))

\* the class a reference names (qualified names are unique in these graphs)
TargetOf(attr) == CHOOSE c \in DOMAIN heap : heap[c].qname = attr.types[1].qname

-----------------------------------------------------------------------------
(* The filters as a state machine                                          *)

Init ==
    /\ pc = "new"
    /\ heap = <<>>
    /\ classes = <<>>
    /\ fqname_map = <<>>
    /\ fqname_cache = <<>>
    /\ ret = [op |-> "__init__"]

\* SqlAlchemyTemplateFilters.set_classes
set_classes(g) ==
    /\ pc' = "returned"
    /\ heap' = g.heap
    /\ classes' = g.classes
    /\ fqname_map' = set_class_fully_qualified_names(g.heap, g.classes, None, <<>>)
    /\ ret' = [op |-> "set_classes"]
    /\ UNCHANGED fqname_cache

\* a find_class_by_qname that memoizes: what it finds is stored in fqname_map under
\* the path it was asked for
FindClassByQname_memoizing(qname, parents) ==
    /\ pc = "ready"
    /\ pc' = "returned"
    /\ ret' = [op |-> "find_class_by_qname", qname |-> qname, parents |-> parents,
               out |-> find_class_by_qname(qname, parents)]
    /\ fqname_map' = IF find_class_by_qname(qname, parents).ok
                     THEN Put(fqname_map, possible_fqdn(qname, parents),
                              find_class_by_qname(qname, parents).cls)
                     ELSE fqname_map
    /\ UNCHANGED <<heap, classes, fqname_cache>>

\* a call of find_class_by_qname(qname, parents)
FindClassByQname(qname, parents) ==
    /\ pc = "ready"
    /\ pc' = "returned"
    /\ ret' = [op |-> "find_class_by_qname", qname |-> qname, parents |-> parents,
               out |-> find_class_by_qname(qname, parents)]
    /\ UNCHANGED <<heap, classes, fqname_map, fqname_cache>>

\* a call of find_fqname_by_class(obj)
FindFqnameByClass(obj) ==
    /\ pc = "ready"
    /\ pc' = "returned"
    /\ ret' = [op |-> "find_fqname_by_class", obj |-> obj, out |-> find_fqname_by_class(obj)]
    /\ UNCHANGED <<heap, classes, fqname_map, fqname_cache>>

\* the caller (the template being rendered) takes the value and goes on
Resume ==
    /\ pc = "returned"
    /\ pc' = "ready"
    /\ ret' = [op |-> "none"]
    /\ UNCHANGED <<heap, classes, fqname_map, fqname_cache>>

ResolverNext ==
    \/ pc = "new" /\ \E g \in ResolverGraphs : set_classes(g)
    \/ pc = "ready" /\ \E c \in DOMAIN heap, parents \in SubPaths(heap) :
                          FindClassByQname(heap[c].qname, parents)
    \/ pc = "ready" /\ \E c \in DOMAIN heap : FindFqnameByClass(c)
    \/ Resume

\* the resolver on every graph of ResolverGraphs
Spec == Init /\ [][ResolverNext]_vars

-----------------------------------------------------------------------------
(* Claims about the resolver                                               *)

IsFind == ret.op = "find_class_by_qname"

\* C1: find_class_by_qname on a class's own qualified name, with the names of its
\* enclosing classes as parents, returns that class and its dotted fully-qualified key.
C1_ResolvesOwnClass ==
    IsFind =>
        \A c \in DOMAIN heap :
            (ret.qname = heap[c].qname /\ ret.parents = ParentsOf(heap, c)) =>
                ret.out = Found(CanonicalKey(heap, c), c)

\* C2: when neither the exact path nor the bare short name is a key and some key ends
\* with the candidate full path, the key returned ends with the full path.
C2_SuffixPrefersFullPath ==
    IsFind =>
        LET possible == possible_fqdn(ret.qname, ret.parents)
        IN  (/\ ~HasKey(fqname_map, possible)
             /\ ~HasKey(fqname_map, class_name(ret.qname))
             /\ \E i \in DOMAIN fqname_map : EndsWith(fqname_map[i].key, possible))
            => (ret.out.ok /\ EndsWith(ret.out.fqname, possible))

\* the lengths k for which (the first k parents).N is a key of the index
PrefixKeys(qname, parents) ==
    {k \in 0..Len(parents) : HasKey(fqname_map, possible_fqdn(qname, SubSeq(parents, 1, k)))}

\* C3 as claimed: among the keys (prefix of P).N the one with the longest prefix of P is
\* returned.
C3_ClosestEnclosingScope ==
    IsFind =>
        LET ks == PrefixKeys(ret.qname, ret.parents)
        IN  ks # {} =>
            LET k == CHOOSE x \in ks : \A y \in ks : y <= x
            IN  /\ ret.out.ok
                /\ ret.out.fqname = possible_fqdn(ret.qname, SubSeq(ret.parents, 1, k))

\* C3 as amended: the exact path P.N is returned when it is a key; when it is not, the
\* top-level N is returned if it is a key, whatever enclosing classes in between hold an N.
C3_ExactThenTopLevel ==
    IsFind =>
        LET possible == possible_fqdn(ret.qname, ret.parents)
            name     == class_name(ret.qname)
        IN  /\ HasKey(fqname_map, possible)
                => ret.out = Found(possible, Get(fqname_map, possible))
            /\ (~HasKey(fqname_map, possible) /\ HasKey(fqname_map, name))
                => ret.out = Found(name, Get(fqname_map, name))

\* a lookup from two levels down whose exact path is no key, while both an enclosing class
\* in between and the top level hold the name: the top-level one is returned
C3_Witness ==
    /\ IsFind
    /\ Len(ret.parents) >= 2
    /\ PrefixKeys(ret.qname, ret.parents) \cap (1..(Len(ret.parents) - 1)) # {}
    /\ Len(ret.parents) \notin PrefixKeys(ret.qname, ret.parents)
    /\ ret.out = Found(class_name(ret.qname), Get(fqname_map, class_name(ret.qname)))

\* C4: after set_classes every class of the graph is the value of exactly one key, its
\* canonical dotted path, and find_fqname_by_class returns that key.
C4_EveryClassIndexedOnce ==
    pc # "new" =>
        \A c \in DOMAIN heap :
            /\ Cardinality({i \in DOMAIN fqname_map : fqname_map[i].val = c}) = 1
            /\ find_fqname_by_class(c) = CanonicalKey(heap, c)

-----------------------------------------------------------------------------
(* The relationship inferencer as a state machine                          *)

\* a call of relationship_backrefs(obj, parents)
RelationshipBackrefs(obj) ==
    /\ pc = "ready"
    /\ pc' = "returned"
    /\ ret' = [op |-> "relationship_backrefs", obj |-> obj, calls |-> 1,
               out |-> relationship_backrefs(obj), first |-> relationship_backrefs(obj)]
    /\ UNCHANGED <<heap, classes, fqname_map, fqname_cache>>

\* the same call made again, right after the first
RelationshipBackrefsAgain ==
    /\ pc = "returned"
    /\ ret.op = "relationship_backrefs"
    /\ ret.calls = 1
    /\ ret' = [ret EXCEPT !.calls = 2, !.out = relationship_backrefs(ret.obj)]
    /\ UNCHANGED <<pc, heap, classes, fqname_map, fqname_cache>>

\* a call of is_many_to_one(attr, parents) for the k-th attribute of class c
IsManyToOne(c, k) ==
    /\ pc = "ready"
    /\ pc' = "returned"
    /\ ret' = [op |-> "is_many_to_one", obj |-> c, attr |-> k,
               out |-> is_many_to_one(heap[c].attrs[k], ParentsWithSelf(heap, c))]
    /\ UNCHANGED <<heap, classes, fqname_map, fqname_cache>>

\* a call of field_metadata(attr, parent_namespace, parents), which calls
\* sql_alchemy_column, for the k-th attribute of class c
FieldMetadata(c, k) ==
    /\ pc = "ready"
    /\ pc' = "returned"
    /\ ret' = [op |-> "sql_alchemy_column", obj |-> c, attr |-> k,
               out |-> field_metadata(heap[c].attrs[k], ParentsWithSelf(heap, c))]
    /\ UNCHANGED <<heap, classes, fqname_map, fqname_cache>>

RelNext ==
    \/ pc = "new" /\ \E g \in RelGraphs : set_classes(g)
    \/ pc = "ready" /\ \E c \in DOMAIN heap : RelationshipBackrefs(c)
    \/ RelationshipBackrefsAgain
    \/ pc = "ready" /\ \E c \in DOMAIN heap : \E k \in DOMAIN heap[c].attrs : IsManyToOne(c, k)
    \/ pc = "ready" /\ \E c \in DOMAIN heap : \E k \in DOMAIN heap[c].attrs : FieldMetadata(c, k)
    \/ Resume

\* the relationship inferencer of the SQLAlchemy filters on every graph of RelGraphs
RelSpec == Init /\ [][RelNext]_vars

-----------------------------------------------------------------------------
(* Claims about the relationship inferencer                                *)

IsBackrefs == ret.op = "relationship_backrefs"

\* the attributes of the graph that refer to class y: pairs <<class, index>>
RefsTo(y, is_list) ==
    {xk \in (DOMAIN heap) \X (1..MaxAttrs) :
        /\ xk[2] \in DOMAIN heap[xk[1]].attrs
        /\ heap[xk[1]].attrs[xk[2]].is_list = is_list
        /\ TargetOf(heap[xk[1]].attrs[xk[2]]) = y}

\* the name build_backwards_relationships gives the fields for attribute a of class x
BackrefName(x, a) == field_case(class_name(heap[x].qname)) \o Us \o field_case(a.name)

\* C5: a class Y that is no enumeration and is the type of a non-list attribute a of a
\* class X carries a collection-valued back-reference that back-populates a and no
\* foreign key for it, and is_many_to_one(a) is true on X.
C5_ScalarSymmetry ==
    (IsBackrefs /\ ~heap[ret.obj].is_enumeration) =>
        \A xk \in RefsTo(ret.obj, FALSE) :
            LET x == xk[1]
                a == heap[x].attrs[xk[2]]
            IN  /\ ret.out.ok
                /\ \E i \in DOMAIN ret.out.fields :
                       /\ ret.out.fields[i].kind = "relationship"
                       /\ ret.out.fields[i].collection
                       /\ ret.out.fields[i].name = BackrefName(x, a)
                       /\ ret.out.fields[i].back_populates = field_case(a.name)
                /\ \A i \in DOMAIN ret.out.fields :
                       ret.out.fields[i].kind = "foreign_key"
                           => ret.out.fields[i].name # BackrefName(x, a) \o Id_
                /\ is_many_to_one(a, ParentsWithSelf(heap, x)) = Value("True")

\* C6: a class Y that is the type of a list-valued attribute a of a class X carries the
\* foreign key <x>_<a>_id to X's table and the relationship <x>_<a> that back-populates
\* a, and is_many_to_one(a) is not true on X.
C6_ListSymmetry ==
    IsBackrefs =>
        \A xk \in RefsTo(ret.obj, TRUE) :
            LET x == xk[1]
                a == heap[x].attrs[xk[2]]
            IN  /\ ret.out.ok
                /\ \E i \in DOMAIN ret.out.fields :
                       /\ ret.out.fields[i].kind = "foreign_key"
                       /\ ret.out.fields[i].name = BackrefName(x, a) \o Id_
                       /\ ret.out.fields[i].table
                              = table_name(Split(CanonicalKey(heap, x), "."))
                /\ \E i \in DOMAIN ret.out.fields :
                       /\ ret.out.fields[i].kind = "relationship"
                       /\ ret.out.fields[i].name = BackrefName(x, a)
                       /\ ret.out.fields[i].back_populates = field_case(a.name)
                /\ is_many_to_one(a, ParentsWithSelf(heap, x)) # Value("True")

\* C8: relationship_backrefs of an enumeration class is empty.
C8_EnumerationsGetNone ==
    (IsBackrefs /\ heap[ret.obj].is_enumeration) => ret.out = Fields(<<>>)

\* what build_backwards_relationships finds for the k-th attribute of class x (line 272)
RefFound(x, k) ==
    find_class_by_qname(heap[x].attrs[k].types[1].qname, Split(find_fqname_by_class(x), "."))

\* the attributes of classes other than obj that resolve to obj: pairs <<class, index>>
ResolvesTo(obj) ==
    {xk \in (DOMAIN heap) \X (1..MaxAttrs) :
        /\ xk[1] # obj
        /\ xk[2] \in DOMAIN heap[xk[1]].attrs
        /\ has_complex_types(type_names(heap[xk[1]].attrs[xk[2]],
                                        <<class_name(heap[xk[1]].qname)>>))
        /\ RefFound(xk[1], xk[2]).ok
        /\ RefFound(xk[1], xk[2]).fqname = find_fqname_by_class(obj)}

\* the fields lines 291-320 make for the k-th attribute of class x
FieldsFor(x, k) ==
    backref_fields(x, heap[x].attrs[k], RefFound(x, k).cls, find_fqname_by_class(x))

\* C21: relationship_backrefs(obj) holds the fields of every attribute that resolves to
\* obj, whatever class other than obj it belongs to and at whatever nesting depth, the
\* classes nested in obj included.
C21_WalkCoversGraph ==
    IsBackrefs =>
        \A xk \in ResolvesTo(ret.obj) :
            /\ ret.out.ok
            /\ Range(FieldsFor(xk[1], xk[2])) \subseteq Range(ret.out.fields)

-----------------------------------------------------------------------------
(* The relationship inference of the base filters as a state machine       *)

Namespace == <<"{", "n", ".", "m", "}">>

QualifiedNames(n) == [i \in 1..n |-> Namespace \o <<RelNames[i]>>]

\* the graphs of RelGraphs without an enumeration, once with plain names and once with
\* the names qualified by a namespace
FiltersGraphs ==
    UNION {UNION {{RelGraph(n, par, refs, 0, qn) :
                      refs \in {rs \in SUBSET Refs(n) : Cardinality(rs) <= MaxAttrs},
                      qn \in {PlainNames(n), QualifiedNames(n)}} :
                  par \in Shapes(n)} :
           n \in 1..Len(RelNames)}

\* Filters.set_classes
Filters_set_classes(g) ==
    /\ pc' = "returned"
    /\ heap' = g.heap
    /\ classes' = g.classes
    /\ ret' = [op |-> "set_classes"]
    /\ UNCHANGED <<fqname_map, fqname_cache>>

\* the return of relationships: what it assigned stays in the classes and in _fqname_map
Returns(obj, w, calls, first) ==
    /\ heap' = w.h
    /\ fqname_cache' = w.cache
    /\ ret' = [op |-> "relationships", obj |-> obj, calls |-> calls,
               out |-> Outcome(w), first |-> IF calls = 1 THEN Outcome(w) ELSE first]

\* a call of relationships(obj, parents)
Relationships(obj) ==
    /\ pc = "ready"
    /\ pc' = "returned"
    /\ Returns(obj, relationships(heap, fqname_cache, obj, ParentsWithSelf(heap, obj)), 1, None)
    /\ UNCHANGED <<classes, fqname_map>>

\* the same call made again, right after the first
RelationshipsAgain ==
    /\ pc = "returned"
    /\ ret.op = "relationships"
    /\ ret.calls = 1
    /\ Returns(ret.obj,
               relationships(heap, fqname_cache, ret.obj, ParentsWithSelf(heap, ret.obj)),
               2, ret.first)
    /\ UNCHANGED <<pc, classes, fqname_map>>

FiltersNext ==
    \/ pc = "new" /\ \E g \in FiltersGraphs : Filters_set_classes(g)
    \/ pc = "ready" /\ \E c \in DOMAIN heap : Relationships(c)
    \/ RelationshipsAgain
    \/ Resume

\* the relationship inference of the base filters on every graph of FiltersGraphs
FiltersSpec == Init /\ [][FiltersNext]_vars

\* C7: a second call of relationships (base filters) or relationship_backrefs
\* (SQLAlchemy filters) right after the first returns what the first returned.
C7_InferenceIdempotent ==
    (ret.op \in {"relationships", "relationship_backrefs"} /\ ret.calls = 2)
        => ret.out = ret.first

-----------------------------------------------------------------------------
(* The column mapper on attributes with several types                      *)

\* the most types in the union of an attribute
MaxTypes == 2

\* the classes of these graphs: the owner X of the attribute, the classes Y and Z and
\* the enumeration W, all at top level
ColClasses == <<"X", "Y", "Z", "W">>

TypeUniverse ==
    {Complex(<<"Y">>), Complex(<<"Z">>), Complex(<<"W">>), Builtin(T_str), Builtin(T_int)}

\* the sequences of 1..MaxTypes different types
TypeLists ==
    UNION {{ts \in [1..n -> TypeUniverse] : \A i, j \in 1..n : i # j => ts[i] # ts[j]} :
           n \in 1..MaxTypes}

ColGraph(types, is_list) ==
    [classes |-> <<1, 2, 3, 4>>,
     heap    |-> [i \in 1..4 |->
                     MkClass(<<ColClasses[i]>>,
                             IF i = 1 THEN <<MkAttr(<<"a">>, types, is_list)>> ELSE <<>>,
                             <<>>, <<>>, i = 4)]]

ColGraphs == {ColGraph(types, is_list) : types \in TypeLists, is_list \in BOOLEAN}

ColNext ==
    \/ pc = "new" /\ \E g \in ColGraphs : set_classes(g)
    \/ pc = "ready" /\ \E c \in DOMAIN heap : \E k \in DOMAIN heap[c].attrs : IsManyToOne(c, k)
    \/ pc = "ready" /\ \E c \in DOMAIN heap : \E k \in DOMAIN heap[c].attrs : FieldMetadata(c, k)
    \/ Resume

\* the column mapper of the SQLAlchemy filters on every attribute of ColGraphs
ColSpec == Init /\ [][ColNext]_vars

IsColumnCall == ret.op = "sql_alchemy_column"

\* the types of the attribute the last call was about
CallTypes == heap[ret.obj].attrs[ret.attr].types

\* the types among them that are classes of the graph, and those that are no enumeration
ClassTypes == {i \in DOMAIN CallTypes : CallTypes[i].datatype = None}
NonEnumTypes ==
    {i \in ClassTypes :
        \E c \in DOMAIN heap : heap[c].qname = CallTypes[i].qname /\ ~heap[c].is_enumeration}

\* C9: sql_alchemy_column raises for an attribute whose types are two or more different
\* classes that are no enumerations.
C9_ComplexUnionRaises ==
    (IsColumnCall /\ Cardinality(NonEnumTypes) >= 2 /\ NonEnumTypes = DOMAIN CallTypes)
        => ~ret.out.ok

\* C10: sql_alchemy_column returns a String column, an array when the attribute is a
\* list, for an attribute whose types are one class and one or more primitive types, in
\* any order.
C10_MixedUnionIsString ==
    (IsColumnCall /\ Cardinality(ClassTypes) = 1 /\ Len(CallTypes) >= 2)
        => ret.out = Column("String", heap[ret.obj].attrs[ret.attr])

-----------------------------------------------------------------------------
(* The column mapper and field_type on attributes with flags               *)

\* every name sql_alchemy_column has a column for, and float
BuiltinNames ==
    {T_bool, T_int, T_Decimal, T_str, T_dict, T_object, T_float, T_datetime, T_XmlDateTime,
     T_XmlDate, T_XmlDuration, T_XmlTime, T_bytes, T_date, T_time}

\* the flags of an attribute and its default value
Flags ==
    [is_list : BOOLEAN, is_tokens : BOOLEAN, is_dict : BOOLEAN, is_nillable : BOOLEAN,
     default : {None, <<"0">>}]

FlagAttr(types, flags) ==
    [name |-> <<"a">>, types |-> types, is_list |-> flags.is_list,
     is_tokens |-> flags.is_tokens, is_dict |-> flags.is_dict, is_enumeration |-> FALSE,
     is_optional |-> FALSE, is_nillable |-> flags.is_nillable, default |-> flags.default]

\* the unions of TypeLists and every built-in type alone
AttrTypeLists == TypeLists \cup {<<Builtin(p)>> : p \in BuiltinNames}

\* the classes of ColGraph, the attribute of X with flags
AttrGraph(types, flags) ==
    [classes |-> <<1, 2, 3, 4>>,
     heap    |-> [i \in 1..4 |->
                     MkClass(<<ColClasses[i]>>,
                             IF i = 1 THEN <<FlagAttr(types, flags)>> ELSE <<>>,
                             <<>>, <<>>, i = 4)]]

AttrGraphs == {AttrGraph(types, flags) : types \in AttrTypeLists, flags \in Flags}

\* a call of field_type(attr, parents) for the k-th attribute of class c
FieldType(c, k) ==
    /\ pc = "ready"
    /\ pc' = "returned"
    /\ ret' = [op |-> "field_type", obj |-> c, attr |-> k,
               out |-> field_type(heap[c].attrs[k], ParentsWithSelf(heap, c))]
    /\ UNCHANGED <<heap, classes, fqname_map, fqname_cache>>

AttrNext ==
    \/ pc = "new" /\ \E g \in AttrGraphs : set_classes(g)
    \/ pc = "ready" /\ \E c \in DOMAIN heap : \E k \in DOMAIN heap[c].attrs : FieldMetadata(c, k)
    \/ pc = "ready" /\ \E c \in DOMAIN heap : \E k \in DOMAIN heap[c].attrs : FieldType(c, k)
    \/ Resume

\* the column mapper and field_type of the SQLAlchemy filters on every attribute of
\* AttrGraphs
AttrSpec == Init /\ [][AttrNext]_vars

\* the attribute the last call was about
CallAttr == heap[ret.obj].attrs[ret.attr]

\* C11: field_type and sql_alchemy_column raise for every attribute that is a dict,
\* whatever its other flags and its types.
C11_DictAlwaysRaises ==
    (ret.op \in {"field_type", "sql_alchemy_column"} /\ CallAttr.is_dict) => ~ret.out.ok

\* C12: sql_alchemy_column raises for every attribute that is tokens and whose types,
\* one or several, are classes that are no enumerations, list or not.
C12_TokensOfClassesRaise ==
    (IsColumnCall /\ CallAttr.is_tokens /\ NonEnumTypes = DOMAIN CallTypes) => ~ret.out.ok

-----------------------------------------------------------------------------
(* The filters on classes with extensions                                  *)

\* the most extensions of a class
MaxExtensions == 2

\* the classes of these graphs, all at top level: X has the attribute a; M is the name
\* of no class
ExtClasses == <<"X", "Y", "Z">>
N_M == <<"M">>

ExtUniverse == {Complex(<<"Y">>), Complex(<<"Z">>), Complex(N_M), Builtin(T_str)}

\* the sequences of 0..MaxExtensions different base types
ExtLists ==
    UNION {{es \in [1..n -> ExtUniverse] : \A i, j \in 1..n : i # j => es[i] # es[j]} :
           n \in 0..MaxExtensions}

NoFlags ==
    [is_list |-> FALSE, is_tokens |-> FALSE, is_dict |-> FALSE, is_nillable |-> FALSE,
     default |-> None]

ExtAttrs(i, target) ==
    IF i = 1 THEN <<FlagAttr(<<Complex(target)>>, NoFlags)>>
    ELSE IF i = 2 THEN <<[FlagAttr(<<Builtin(T_str)>>, NoFlags) EXCEPT !.name = <<"b">>]>>
    ELSE <<[FlagAttr(<<Builtin(T_int)>>, NoFlags) EXCEPT !.name = <<"c">>]>>

\* X.a is of type target; Y and Z extend the types of ey and ez
ExtGraph(target, ey, ez) ==
    [classes |-> <<1, 2, 3>>,
     heap    |-> [i \in 1..3 |->
                     MkClass(<<ExtClasses[i]>>, ExtAttrs(i, target), <<>>,
                             IF i = 2 THEN [k \in DOMAIN ey |-> Extension(ey[k])]
                             ELSE IF i = 3 THEN [k \in DOMAIN ez |-> Extension(ez[k])]
                             ELSE <<>>,
                             FALSE)]]

ExtGraphs ==
    {ExtGraph(target, ey, ez) : target \in {<<"Y">>, N_M}, ey \in ExtLists, ez \in ExtLists}

\* a call of relationship_definition(attr, ns_map, parent_namespace, parents) for the
\* k-th attribute of class c; a call whose loop never ends does not return
RelationshipDefinition(c, k) ==
    /\ pc = "ready"
    /\ pc' = IF relationship_definition(heap[c].attrs[k], ParentsWithSelf(heap, c)).ok
                \/ relationship_definition(heap[c].attrs[k], ParentsWithSelf(heap, c)).error
                       # "never returns"
             THEN "returned" ELSE "running"
    /\ ret' = [op |-> "relationship_definition", obj |-> c, attr |-> k,
               out |-> relationship_definition(heap[c].attrs[k], ParentsWithSelf(heap, c))]
    /\ UNCHANGED <<heap, classes, fqname_map, fqname_cache>>

\* a call of extension_attrs(obj.extensions), as the class template makes it
ExtensionAttrs(c) ==
    /\ pc = "ready"
    /\ pc' = "returned"
    /\ ret' = [op |-> "extension_attrs", obj |-> c,
               out |-> extension_attrs(heap[c].extensions)]
    /\ UNCHANGED <<heap, classes, fqname_map, fqname_cache>>

ExtNext ==
    \/ pc = "new" /\ \E g \in ExtGraphs : set_classes(g)
    \/ pc = "ready" /\ \E c \in DOMAIN heap, d \in DOMAIN heap :
                          FindClassByQname(heap[c].qname, ParentsWithSelf(heap, d))
    \/ pc = "ready" /\ \E c \in DOMAIN heap : FindFqnameByClass(c)
    \/ pc = "ready" /\ \E c \in DOMAIN heap : RelationshipBackrefs(c)
    \/ pc = "ready" /\ \E c \in DOMAIN heap : \E k \in DOMAIN heap[c].attrs : IsManyToOne(c, k)
    \/ pc = "ready" /\ \E c \in DOMAIN heap : \E k \in DOMAIN heap[c].attrs :
                          RelationshipDefinition(c, k)
    \/ pc = "ready" /\ \E c \in DOMAIN heap : \E k \in DOMAIN heap[c].attrs : FieldMetadata(c, k)
    \/ pc = "ready" /\ \E c \in DOMAIN heap : \E k \in DOMAIN heap[c].attrs : FieldType(c, k)
    \/ pc = "ready" /\ \E c \in DOMAIN heap : ExtensionAttrs(c)
    \/ Resume

\* every operation of the SQLAlchemy filters on every graph of ExtGraphs
ExtSpec == Init /\ [][ExtNext]_vars

ResolutionError(out) == ~out.ok /\ out.error = "Can't find class for qname"

\* no key of the index ends with the class name of qname: find_class_by_qname finds no
\* class for it, whatever the parents
NoClassFor(qname) ==
    \A i \in DOMAIN fqname_map : ~EndsWith(fqname_map[i].key, class_name(qname))

RECURSIVE WalkNames(_, _)
\* the names the loop of relationship_definition looks up, from table_qname on
WalkNames(table_qname, rounds) ==
    IF rounds > Len(heap) THEN {}
    ELSE {table_qname} \cup
         (IF /\ find_class_by_qname(table_qname, <<>>).ok
             /\ heap[find_class_by_qname(table_qname, <<>>).cls].extensions # <<>>
          THEN WalkNames(class_name(heap[find_class_by_qname(table_qname, <<>>).cls]
                                        .extensions[1].type.qname), rounds + 1)
          ELSE {})

\* the extensions of the class that find_class_by_qname returns for the attribute of
\* the last call
TargetExtensions ==
    heap[find_class_by_qname(CallAttr.types[1].qname, ParentsWithSelf(heap, ret.obj)).cls]
        .extensions

IsComplexAttr(attr) == attr.types[1].datatype = None

\* C13: relationship_definition, sql_alchemy_column, field_type, is_many_to_one,
\* relationship_backrefs and extension_attrs raise the resolution error whenever a
\* find_class_by_qname call they make finds no class: for the type of the attribute,
\* for a name on the walk up the extension chain, for the type of an attribute the
\* backward walk visits, for the type of an extension.
C13_ResolutionFailureIsFatal ==
    /\ ( /\ ret.op \in {"sql_alchemy_column", "field_type", "is_many_to_one"}
         /\ IsComplexAttr(CallAttr)
         /\ NoClassFor(CallAttr.types[1].qname) ) => ResolutionError(ret.out)
    /\ ( /\ ret.op = "relationship_definition"
         /\ NoClassFor(CallAttr.types[1].qname) ) => ResolutionError(ret.out)
    /\ ( /\ ret.op = "relationship_definition"
         /\ ~NoClassFor(CallAttr.types[1].qname)
         /\ Len(TargetExtensions) = 1
         /\ \E n \in WalkNames(class_name(TargetExtensions[1].type.qname), 1) :
                NoClassFor(n) ) => ResolutionError(ret.out)
    /\ ( /\ ret.op = "relationship_backrefs"
         /\ \E c \in DOMAIN heap \ {ret.obj} : \E k \in DOMAIN heap[c].attrs :
                /\ IsComplexAttr(heap[c].attrs[k])
                /\ NoClassFor(heap[c].attrs[k].types[1].qname) ) => ResolutionError(ret.out)
    /\ ( /\ ret.op = "extension_attrs"
         /\ \E i \in DOMAIN heap[ret.obj].extensions :
                /\ \A j \in 1..i : heap[ret.obj].extensions[j].type.datatype = None
                /\ \A j \in 1..(i - 1) : ~NoClassFor(heap[ret.obj].extensions[j].type.qname)
                /\ NoClassFor(heap[ret.obj].extensions[i].type.qname) )
           => ResolutionError(ret.out)

-----------------------------------------------------------------------------
(* The resolver asked for names that may be no class of the graph          *)

LookupNext ==
    \/ pc = "new" /\ \E g \in ResolverGraphs : set_classes(g)
    \/ pc = "ready" /\ \E qname \in ResolverQNames, parents \in SubPaths(heap) :
                          FindClassByQname(qname, parents)
    \/ Resume

\* find_class_by_qname for every name of ResolverQNames on every graph of ResolverGraphs
LookupSpec == Init /\ [][LookupNext]_vars

\* no key equals the path or the name, and none ends with either
NothingMatches(name, possible) ==
    \A i \in DOMAIN fqname_map :
        /\ fqname_map[i].key # possible
        /\ fqname_map[i].key # name
        /\ ~EndsWith(fqname_map[i].key, possible)
        /\ ~EndsWith(fqname_map[i].key, name)

\* C14: find_class_by_qname raises the resolution error exactly when no key equals the
\* candidate full path or the bare short name and none ends with either; otherwise it
\* returns a key of fqname_map and the class stored under that key.
C14_RaisesIffNothingMatches ==
    IsFind =>
        /\ ResolutionError(ret.out)
               <=> NothingMatches(class_name(ret.qname), possible_fqdn(ret.qname, ret.parents))
        /\ ret.out.ok =>
               /\ HasKey(fqname_map, ret.out.fqname)
               /\ Get(fqname_map, ret.out.fqname) = ret.out.cls

\* a lookup that raises on an index that is not empty
C14_Witness ==
    /\ IsFind
    /\ fqname_map # <<>>
    /\ ResolutionError(ret.out)
    /\ NothingMatches(class_name(ret.qname), possible_fqdn(ret.qname, ret.parents))

ConfigurationError(out) ==
    ~out.ok /\ out.error = "More than one inherited class is unsupported for SQLAlchemy"

\* the classes the loop of relationship_definition finds, from table_qname on
WalkClasses(table_qname) ==
    {find_class_by_qname(n, <<>>).cls :
        n \in {x \in WalkNames(table_qname, 1) : find_class_by_qname(x, <<>>).ok}}

\* C15: relationship_definition raises the configuration error when the class of its
\* attribute, or a base class on the walk up that class's extension chain, has more
\* than one extension, and extension_attrs raises it when given more than one extension.
C15_MultipleExtensionsRaise ==
    /\ ( /\ ret.op = "relationship_definition"
         /\ ~NoClassFor(CallAttr.types[1].qname)
         /\ Len(TargetExtensions) > 1 ) => ConfigurationError(ret.out)
    /\ ( /\ ret.op = "relationship_definition"
         /\ ~NoClassFor(CallAttr.types[1].qname)
         /\ Len(TargetExtensions) = 1
         /\ \E c \in WalkClasses(class_name(TargetExtensions[1].type.qname)) :
                Len(heap[c].extensions) > 1 ) => ConfigurationError(ret.out)
    /\ ( /\ ret.op = "extension_attrs"
         /\ Len(heap[ret.obj].extensions) > 1 ) => ConfigurationError(ret.out)

-----------------------------------------------------------------------------
(* The relationship inferencer on classes that share a short name          *)

NameNames == <<"X", "Y", "Z">>

\* the references of the second and the third class to the first
NameRefs == {r \in Refs(3) : r.owner # 1 /\ r.target = 1}

\* the first class is X at top level; the second is Y; the third is Y or Z, in any
\* nesting in which siblings have different names; up to MaxAttrs attributes refer to X
NameGraphs ==
    UNION {{RelGraph(3, par, refs, 0, [i \in 1..3 |-> <<IF i = 3 THEN third ELSE NameNames[i]>>]) :
              refs \in {rs \in SUBSET NameRefs : Cardinality(rs) <= MaxAttrs},
              third \in {n \in {"Y", "Z"} : par[2] # par[3] \/ n # "Y"}} :
           par \in Shapes(3)}

NameNext ==
    \/ pc = "new" /\ \E g \in NameGraphs : set_classes(g)
    \/ pc = "ready" /\ \E c \in DOMAIN heap : RelationshipBackrefs(c)
    \/ Resume

\* relationship_backrefs of the SQLAlchemy filters on every graph of NameGraphs
NameSpec == Init /\ [][NameNext]_vars

\* C16: the fields relationship_backrefs returns for a class all have different names,
\* also when a class refers to it by several attributes and when two classes that
\* refer to it have the same short name at different nesting levels.
C16_BackrefNamesDiffer ==
    (IsBackrefs /\ ret.out.ok) =>
        \A i, j \in DOMAIN ret.out.fields :
            i # j => ret.out.fields[i].name # ret.out.fields[j].name

-----------------------------------------------------------------------------
(* The base filters over several runs                                      *)

\* the entries of a dict under the keys of K
Restrict(d, K) == SelectSeq(d, LAMBDA e : e.key \in K)

\* Filters.set_classes of a later run, on the same filters: the classes are new
\* objects, and recycled are the ids among them that objects of earlier runs had; the
\* class attribute _fqname_map is never cleared, and its entries under ids that no
\* class of this run has cannot be read in this run
Filters_set_classes_again(g, recycled) ==
    /\ pc' = "returned"
    /\ heap' = g.heap
    /\ classes' = g.classes
    /\ fqname_cache' = Restrict(fqname_cache, recycled)
    /\ ret' = [op |-> "set_classes"]
    /\ UNCHANGED fqname_map

RunsNext ==
    \/ pc = "new" /\ \E g \in FiltersGraphs : Filters_set_classes(g)
    \/ pc = "ready" /\ \E g \in FiltersGraphs : \E recycled \in SUBSET DOMAIN g.heap :
                          Filters_set_classes_again(g, recycled)
    \/ pc = "ready" /\ \E c \in DOMAIN heap : Relationships(c)
    \/ Resume

\* the relationship inference of the base filters, run after run
RunsSpec == Init /\ [][RunsNext]_vars

\* C17: what relationships returns in a run is what it returns for that run's classes
\* with nothing memoized: no entry that _fqname_map holds from an earlier run takes
\* part in it.
C17_NoLeakAcrossRuns ==
    [][(pc = "ready" /\ pc' = "returned" /\ ret'.op = "relationships")
          => ret'.out = Outcome(relationships(heap, <<>>, ret'.obj,
                                              ParentsWithSelf(heap, ret'.obj)))]_vars

\* C18: between one set_classes and the next no operation of the filters
\* (find_class_by_qname, find_fqname_by_class, relationship_backrefs, is_many_to_one,
\* relationship_definition, sql_alchemy_column, field_type, extension_attrs) adds,
\* removes or rebinds a key of fqname_map or changes the class list.
C18_IndexReadOnly ==
    [][pc = "ready" => (fqname_map' = fqname_map /\ classes' = classes /\ heap' = heap)]_vars

\* extension_attrs has returned the attributes of a base class, and the index is still
\* the one set_classes built from the class list
C18_Witness ==
    /\ ret.op = "extension_attrs"
    /\ ret.out.ok
    /\ ret.out.attrs # <<>>
    /\ fqname_map = set_class_fully_qualified_names(heap, classes, None, <<>>)

\* the primitive mapping table: the column type of each primitive type name
TableColumns ==
    [n \in {T_bool, T_int, T_Decimal, T_str, T_bytes, T_dict, T_object, T_datetime,
            T_XmlDateTime, T_date, T_XmlDate, T_time, T_XmlTime, T_XmlDuration} |->
        CASE n = T_bool -> "Boolean"
          [] n = T_int -> "Integer"
          [] n = T_Decimal -> "Numeric"
          [] n = T_str -> "String"
          [] n = T_bytes -> "LargeBinary()"
          [] n \in {T_dict, T_object} -> "XmlJSONB"
          [] n \in {T_datetime, T_XmlDateTime} -> "SqlXmlDateTime"
          [] n \in {T_date, T_XmlDate} -> "SqlXmlDate"
          [] n \in {T_time, T_XmlTime} -> "SqlXmlTime"
          [] n = T_XmlDuration -> "SqlXmlDuration"]

\* C19: for an attribute with one type that is a primitive of the mapping table,
\* sql_alchemy_column returns Column(T), T being the table's column type, as an array
\* exactly when the attribute is a list; it never returns a relationship.
C19_PrimitiveColumnByCardinality ==
    (IsColumnCall /\ Len(CallTypes) = 1 /\ CallTypes[1].datatype \in DOMAIN TableColumns)
        => ret.out = [ok |-> TRUE, kind |-> "Column",
                      type |-> TableColumns[CallTypes[1].datatype],
                      array |-> CallAttr.is_list]

\* a list of bool has been mapped to an array of Boolean
C19_Witness ==
    /\ IsColumnCall
    /\ CallTypes = <<Builtin(T_bool)>>
    /\ CallAttr.is_list
    /\ ret.out.ok
    /\ ret.out.type = "Boolean"
    /\ ret.out.array

-----------------------------------------------------------------------------
(* The type classifier on lists of names                                   *)

\* the longest list of names given to has_complex_types
MaxNames == 2

\* the names a type can have: every built-in name and the name of a class
ClassifierNames == BuiltinNames \cup {<<"Y">>}

NameLists == UNION {[1..n -> ClassifierNames] : n \in 0..MaxNames}

\* a call of has_complex_types(type_names) of the SQLAlchemy filters or of the base
\* filters; the classifier reads no class list
HasComplexTypes(filters, names) ==
    /\ pc \in {"new", "ready"}
    /\ pc' = "returned"
    /\ ret' = [op |-> "has_complex_types", filters |-> filters, names |-> names,
               out |-> IF filters = "SqlAlchemyTemplateFilters"
                       THEN has_complex_types(names)
                       ELSE Filters_has_complex_types(names)]
    /\ UNCHANGED <<heap, classes, fqname_map, fqname_cache>>

\* a call of is_complex_type(type_name)
IsComplexType(filters, name) ==
    /\ pc \in {"new", "ready"}
    /\ pc' = "returned"
    /\ ret' = [op |-> "is_complex_type", filters |-> filters, names |-> <<name>>,
               out |-> IF filters = "SqlAlchemyTemplateFilters"
                       THEN is_complex_type(name)
                       ELSE Filters_is_complex_type(name)]
    /\ UNCHANGED <<heap, classes, fqname_map, fqname_cache>>

ClassifierNext ==
    \/ \E filters \in {"SqlAlchemyTemplateFilters", "Filters"}, names \in NameLists :
           HasComplexTypes(filters, names)
    \/ \E filters \in {"SqlAlchemyTemplateFilters", "Filters"}, name \in ClassifierNames :
           IsComplexType(filters, name)
    \/ Resume

\* the two classifier operations of either filters on every list of NameLists
ClassifierSpec == Init /\ [][ClassifierNext]_vars

\* is_complex_type of the filters the last call was made on
ComplexFor(filters, name) ==
    IF filters = "SqlAlchemyTemplateFilters" THEN is_complex_type(name)
    ELSE Filters_is_complex_type(name)

\* the primitive set of those filters
PrimitivesOf(filters) ==
    IF filters = "SqlAlchemyTemplateFilters" THEN PrimitiveNames ELSE Filters_PrimitiveNames

\* C20: has_complex_types(names) is true exactly when is_complex_type is true for a
\* name of the list, is_complex_type(n) is true exactly when n is outside the primitive
\* set, and the empty list has no complex types.
C20_ClassifiersAgree ==
    /\ ret.op = "has_complex_types" =>
           /\ ret.out <=> \E i \in DOMAIN ret.names : ComplexFor(ret.filters, ret.names[i])
           /\ ret.names = <<>> => ~ret.out
    /\ ret.op = "is_complex_type" =>
           (ret.out <=> ret.names[1] \notin PrimitivesOf(ret.filters))

\* a list of a primitive and a class has complex types
C20_Witness ==
    /\ ret.op = "has_complex_types"
    /\ ret.names = <<T_float, <<"Y">>>>
    /\ ret.out

-----------------------------------------------------------------------------
(* Claims about the two sides of an association                            *)

\* what sql_alchemy_column finds for the k-th attribute of class x (line 149)
ColumnFound(x, k) ==
    find_class_by_qname(heap[x].attrs[k].types[1].qname, ParentsWithSelf(heap, x))

\* out is a list of fields with one of that kind and name
HasField(out, kind, name) ==
    /\ out.ok
    /\ \E i \in DOMAIN out.fields : out.fields[i].kind = kind /\ out.fields[i].name = name

\* some attribute of some class is rendered as a relationship that back-populates name
BackPopulated(name) ==
    \E x \in DOMAIN heap : \E k \in DOMAIN heap[x].attrs :
        /\ field_metadata(heap[x].attrs[k], ParentsWithSelf(heap, x)).ok
        /\ field_metadata(heap[x].attrs[k], ParentsWithSelf(heap, x)).kind = "relationship"
        /\ field_metadata(heap[x].attrs[k], ParentsWithSelf(heap, x)).back_populates = name

\* C22: a relationship rendered with back_populates=N points at a field N that
\* relationship_backrefs of the target class holds (with the foreign key N_id for a list
\* attribute), and every relationship field relationship_backrefs synthesizes is the
\* back_populates of a relationship rendered for some attribute.
C22_BothSidesAgree ==
    /\ (/\ ret.op = "sql_alchemy_column"
        /\ ret.out.ok
        /\ ret.out.kind = "relationship"
        /\ ret.out.back_populates # None)
       => /\ HasField(relationship_backrefs(ColumnFound(ret.obj, ret.attr).cls),
                      "relationship", ret.out.back_populates)
          /\ heap[ret.obj].attrs[ret.attr].is_list
                => HasField(relationship_backrefs(ColumnFound(ret.obj, ret.attr).cls),
                            "foreign_key", ret.out.back_populates \o Id_)
    /\ (IsBackrefs /\ ret.out.ok)
       => \A i \in DOMAIN ret.out.fields :
              ret.out.fields[i].kind = "relationship" => BackPopulated(ret.out.fields[i].name)

\* out is the non-list relationship declaration that uses the foreign key <attr>_id
UsesForeignKey(out, attr) ==
    /\ out.ok
    /\ out.kind = "relationship"
    /\ ~attr.is_list
    /\ out.foreign_keys = field_name(attr.name) \o Id_

\* C23: is_many_to_one(attr, parents) is true exactly when sql_alchemy_column renders
\* attr as the non-list relationship that uses the foreign key <attr>_id.
C23_ManyToOneIffForeignKey ==
    ret.op \in {"is_many_to_one", "sql_alchemy_column"} =>
        (is_many_to_one(CallAttr, ParentsWithSelf(heap, ret.obj)) = Value("True")
            <=> UsesForeignKey(field_metadata(CallAttr, ParentsWithSelf(heap, ret.obj)),
                               CallAttr))

-----------------------------------------------------------------------------
(* The resolver on class names that end with another class's name          *)

N_FooItem == <<"F", "o", "o", "I", "t", "e", "m">>

\* an enclosing name, a short name, and a longer name that ends with the short one
SuffixQNames == {N_A, N_Item, N_FooItem}

SuffixGraphsOf(n, par) ==
    {[classes |-> Kids(par, n, 0),
      heap    |-> [i \in 1..n |-> MkClass(nm[i], <<>>, Kids(par, n, i), <<>>, FALSE)]] :
        nm \in {f \in [1..n -> SuffixQNames] : DistinctSiblings(par, n, f)}}

SuffixGraphs ==
    UNION {UNION {SuffixGraphsOf(n, par) : par \in Shapes(n)} : n \in 1..MaxClasses}

SuffixNext ==
    \/ pc = "new" /\ \E g \in SuffixGraphs : set_classes(g)
    \/ pc = "ready" /\ \E qname \in SuffixQNames, parents \in SubPaths(heap) :
                          FindClassByQname(qname, parents)
    \/ pc = "ready" /\ \E c \in DOMAIN heap : FindFqnameByClass(c)
    \/ Resume

\* the resolver on every graph of SuffixGraphs, asked for every name of SuffixQNames
SuffixSpec == Init /\ [][SuffixNext]_vars

\* C24: the key find_class_by_qname returns has the converted short name of the qname as
\* its last dotted segment.
C24_ReturnedClassBearsName ==
    (IsFind /\ ret.out.ok) => Last(Split(ret.out.fqname, ".")) = class_name(ret.qname)

-----------------------------------------------------------------------------
(* table_name on lists of parent names                                     *)

\* the most names in the list of parents
MaxParents == 3

\* a name of 31 characters (two of them joined pass the limit) and one of 64
N_Medium == [i \in 1..31 |-> "a"]
N_Long   == [i \in 1..(MaxIdentifier + 1) |-> "a"]

SegmentNames == {N_A, N_nItem, N_Medium, N_Long}

ParentLists == UNION {[1..n -> SegmentNames] : n \in 1..MaxParents}

\* a call of table_name(parents): when the loop never ends the call stays running
TableName(filters, parents) ==
    /\ pc \in {"new", "ready"}
    /\ pc' = IF filters = "SqlAlchemyTemplateFilters"
             THEN IF table_name_call(parents).ok THEN "returned" ELSE "running"
             ELSE IF Filters_table_name_call(parents).ok THEN "returned" ELSE "running"
    /\ ret' = [op |-> "table_name", filters |-> filters, parents |-> parents,
               out |-> IF filters = "SqlAlchemyTemplateFilters"
                       THEN table_name_call(parents)
                       ELSE Filters_table_name_call(parents)]
    /\ UNCHANGED <<heap, classes, fqname_map, fqname_cache>>

TableNext ==
    \/ \E filters \in {"SqlAlchemyTemplateFilters", "Filters"}, parents \in ParentLists :
           TableName(filters, parents)
    \/ Resume

\* table_name of either filters on every list of ParentLists
TableSpec == Init /\ [][TableNext]_vars

\* the field-cased segments table_name joins
SegmentsOf(filters, parents) ==
    [i \in DOMAIN parents |->
        field_case(IF filters = "SqlAlchemyTemplateFilters"
                   THEN class_name(parents[i])
                   ELSE Filters_class_name(parents[i]))]

\* C25: table_name returns, and what it returns is at most 63 characters long and is
\* the "__"-join of the segments from some segment on.
C25_TableNameIsSafeIdentifier ==
    ret.op = "table_name" =>
        /\ ret.out.ok
        /\ Len(ret.out.text) <= MaxIdentifier
        /\ \E k \in DOMAIN ret.parents :
               ret.out.text = Join(SubSeq(SegmentsOf(ret.filters, ret.parents),
                                          k, Len(ret.parents)), <<"_", "_">>)

\* C26: every call of relationship_definition returns, with a field or an exception.
C26_DefinitionTerminates ==
    ret.op = "relationship_definition" =>
        /\ pc = "returned"
        /\ ret.out.ok \/ ret.out.error # "never returns"

-----------------------------------------------------------------------------
(* relationship_definition on extension chains through nested classes      *)

\* the base types of these graphs: one at most per class
ChainLists == {<<>>, <<Complex(<<"Y">>)>>, <<Complex(<<"Z">>)>>, <<Complex(N_M)>>}

\* the classes X, Y, Z in the nesting par; X.a is of type Y; Y and Z extend the types
\* of ey and ez
ChainGraph(par, ey, ez) ==
    [classes |-> Kids(par, 3, 0),
     heap    |-> [i \in 1..3 |->
                     MkClass(<<ExtClasses[i]>>, ExtAttrs(i, <<"Y">>), Kids(par, 3, i),
                             IF i = 2 THEN [k \in DOMAIN ey |-> Extension(ey[k])]
                             ELSE IF i = 3 THEN [k \in DOMAIN ez |-> Extension(ez[k])]
                             ELSE <<>>,
                             FALSE)]]

ChainGraphs ==
    {ChainGraph(par, ey, ez) : par \in Shapes(3), ey \in ChainLists, ez \in ChainLists}

ChainNext ==
    \/ pc = "new" /\ \E g \in ChainGraphs : set_classes(g)
    \/ pc = "ready" /\ \E c \in DOMAIN heap : FindClassByQname(heap[c].qname, <<>>)
    \/ pc = "ready" /\ \E c \in DOMAIN heap : FindFqnameByClass(c)
    \/ pc = "ready" /\ \E c \in DOMAIN heap : \E k \in DOMAIN heap[c].attrs :
                          RelationshipDefinition(c, k)
    \/ Resume

\* relationship_definition on every graph of ChainGraphs
ChainSpec == Init /\ [][ChainNext]_vars

\* the class the base type of c resolves to
BaseFound(c) == find_class_by_qname(class_name(heap[c].extensions[1].type.qname), <<>>)

RECURSIVE RootOf(_, _)
\* the root of c's chain, the first ancestor without extensions, when the chain is one
\* of single extensions that all resolve; 0 when it is not, or when it has no end
RootOf(c, rounds) ==
    IF heap[c].extensions = <<>> THEN c
    ELSE IF rounds > Len(heap) \/ Len(heap[c].extensions) > 1 \/ ~BaseFound(c).ok THEN 0
    ELSE RootOf(BaseFound(c).cls, rounds + 1)

\* the table of class c: the name made from its fully-qualified path
TableOf(c) == table_name(Split(find_fqname_by_class(c), "."))

\* C27: for an attribute whose class has a chain of single extensions that all resolve,
\* relationship_definition returns the foreign key to the table of the root of the
\* chain; for a class without extensions, to the table of the class itself.
C27_ForeignKeyToBaseTable ==
    (/\ ret.op = "relationship_definition"
     /\ ColumnFound(ret.obj, ret.attr).ok
     /\ RootOf(ColumnFound(ret.obj, ret.attr).cls, 1) # 0)
    => ret.out = ForeignKeyColumn(TableOf(RootOf(ColumnFound(ret.obj, ret.attr).cls, 1)))

\* the class named by the one complex type of the attribute of the last call
NamedClass ==
    CHOOSE c \in DOMAIN heap : \E i \in ClassTypes : heap[c].qname = CallTypes[i].qname

\* C28: for an attribute with exactly one complex type, first in its types or after a
\* primitive, the class sql_alchemy_column, is_many_to_one and
\* build_backwards_relationships resolve is the class that type names, and the call
\* does not fail to resolve it.
C28_ResolvesTheComplexType ==
    (ret.op \in {"sql_alchemy_column", "is_many_to_one"} /\ Cardinality(ClassTypes) = 1)
        => /\ ColumnFound(ret.obj, ret.attr) = Found(CanonicalKey(heap, NamedClass), NamedClass)
           /\ RefFound(ret.obj, ret.attr) = Found(CanonicalKey(heap, NamedClass), NamedClass)
           /\ ~ResolutionError(ret.out)

\* C29: sql_alchemy_column maps a single-typed attribute whose type name is primitive
\* for is_complex_type, float included, to a column.
C29_TotalOnPrimitives ==
    (/\ ret.op = "sql_alchemy_column"
     /\ Len(CallAttr.types) = 1
     /\ ~is_complex_type(type_names(CallAttr, ParentsWithSelf(heap, ret.obj))[1]))
    => (ret.out.ok /\ ret.out.kind = "Column")

-----------------------------------------------------------------------------
(* The resolver on the same classes listed in another order                *)

\* the orders a list of different items can be put in
Orders(s) == {t \in [DOMAIN s -> Range(s)] : Range(t) = Range(s)}

\* set_classes on the classes of the graph again, the top-level list in the order top
\* and the inner classes of c in the order inner
set_classes_reordered(top, c, inner) ==
    /\ pc = "ready"
    /\ pc' = "returned"
    /\ heap' = [heap EXCEPT ![c].inner = inner]
    /\ classes' = top
    /\ fqname_map' = set_class_fully_qualified_names(heap', top, None, <<>>)
    /\ ret' = [op |-> "set_classes"]
    /\ UNCHANGED fqname_cache

\* the graphs of the resolver, and those of two top-level classes with an inner class each
OrderGraphs == ResolverGraphs \cup ResolverGraphsOf(4, <<0, 1, 0, 3>>)

OrderNext ==
    \/ pc = "new" /\ \E g \in OrderGraphs : set_classes(g)
    \/ pc = "ready" /\ \E top \in Orders(classes) : \E c \in DOMAIN heap :
                          \E inner \in Orders(heap[c].inner) :
                              set_classes_reordered(top, c, inner)
    \/ pc = "ready" /\ \E qname \in ResolverQNames, parents \in SubPaths(heap) :
                          FindClassByQname(qname, parents)
    \/ Resume

\* the resolver on every graph of OrderGraphs in every order of its class lists
OrderSpec == Init /\ [][OrderNext]_vars

\* C30: after set_classes on the same classes in another order, find_class_by_qname
\* returns for every qname and parents the class it returned before.
C30_OrderIndependent ==
    [][(pc = "ready" /\ pc' = "returned" /\ ret'.op = "set_classes")
          => \A qname \in ResolverQNames : \A parents \in SubPaths(heap) :
                 find_class_by_qname(qname, parents)' = find_class_by_qname(qname, parents)]_vars

====
